---- MODULE Spec2Model ----
(***************************************************************************)
(* A model of the USB serial-bridge firmware "base":                       *)
(*   src/src/utils/cqeue.c      the byte queue between interrupt and loop  *)
(*   src/src/driver/usb.c       the endpoint registers, ctr0, data_ctr,    *)
(*                              the poll loop                              *)
(*   src/src/driver/usb_enum.c  the SETUP dispatcher                       *)
(* Several specifications share the variables; each one drives a part of   *)
(* the program and leaves the rest of the state alone.                     *)
(***************************************************************************)
EXTENDS Integers, Sequences, FiniteSets, TLC

(***************************************************************************)
(* Bounds of the model.                                                    *)
(***************************************************************************)
\* capacity handed to cq_init (the firmware passes IN_BUF_SIZE = 256)
QSize == 3
\* queued bytes are drawn from 0..MaxByte
MaxByte == 1
\* cq_add is called at most MaxAdds times in one behaviour
MaxAdds == 5
\* a bulk-OUT packet carries 1..MaxPkt bytes (the endpoint allows 64)
MaxPkt == 2
\* the host sets the addresses 1..MaxAddr, and 127
MaxAddr == 1
\* the strings printed are up to ENDPOINT_LIMIT + MaxExtra bytes long
MaxExtra == 1
\* an OUT packet on endpoint 0 carries 0..MaxOut0 bytes
MaxOut0 == 1
\* the host asks for 0..MaxDescLen bytes of the configuration descriptor
MaxDescLen == 33
\* VERSION of version.h is 1..MaxVersionLen characters long
MaxVersionLen == 3

Byte == 0..MaxByte

VARIABLES
    \* struct cqueue in_queue (cqeue.h): buf, ip, op as offsets from bp
    qbuf, ip, op, count, toss,
    \* history of the queue's use: every byte handed to cq_add, every byte
    \* returned by a successful cq_remove, whether a cq_add followed a cq_remove
    added, removed, mixed,
    \* the bytes a FIFO of capacity QSize takes in: a byte handed to cq_add
    \* while fewer than QSize accepted bytes are unread
    accepted,
    \* the poll loop inside endpoint_recv and cq_remove: its position, the
    \* register holding the loaded count, the locals n and i of endpoint_recv
    cpc, creg, cn, ci,
    \* USB->EPR[0..1], the endpoint registers of endpoints 0 and 1
    EPR,
    \* the last endpoint register function called on its own: its name, its
    \* endpoint, the register before the call and the value it wrote
    eprOp,
    \* usb.c, usb_enum.c: the globals of the driver
    usb_current_state, uart_current_state, usb_inital_prompt_pending, cp21_control,
    pending_address, tx_rem, tx_rem_count, flags, halted,
    \* the peripheral: USB->DADDR, the RESET bit of USB->ISTR, the transmit and
    \* receive counts of the buffer table (the low 10 bits for rx_count), what
    \* pma_copy_out left in each transmit buffer and the packet in each
    \* receive buffer
    DADDR, ISTR_RESET, tx_count, rx_count, pma_tx, pma_rx,
    \* where the interrupt handler and the main context stand, and the length
    \* handed to endpoint_send
    ipc, mpc, mlen,
    \* the step just taken
    last,
    \* the host driving the terminal: where it stands in opening the port, and
    \* how many times the initial prompt was handed to usb_endpoint_send
    hpc, prompts,
    \* terminal.c: the line buffer and its index, and the command
    \* builtins_terminal_process_return dispatched with its arguments
    terminal_buffer, terminal_buffer_index, dispatched,
    \* the local tmo of enum_wait, int_count and int_first of the interrupt
    \* handler, USB->CNTR, and the bytes the poll loop handed to the shell
    tmo, int_count, int_first, CNTR, shell_in

qvars == <<qbuf, ip, op, count, toss>>
hvars == <<added, removed, mixed, accepted>>
cvars == <<cpc, creg, cn, ci>>
evars == <<EPR, eprOp>>
dvars == <<usb_current_state, uart_current_state, usb_inital_prompt_pending,
           cp21_control, pending_address, tx_rem, tx_rem_count, flags, halted,
           DADDR, ISTR_RESET, tx_count, rx_count, pma_tx, pma_rx, ipc, mpc, mlen, last>>
pvars == <<hpc, prompts>>
tvars == <<terminal_buffer, terminal_buffer_index, dispatched>>
xvars == <<tmo, int_count, int_first, CNTR, shell_in>>
vars == <<qvars, hvars, cvars, evars, dvars, pvars, tvars, xvars>>

(***************************************************************************)
(* cqeue.c                                                                 *)
(***************************************************************************)
\* cq_init: an empty queue over a zeroed static buffer
cq_init ==
    /\ qbuf = [i \in 0..(QSize - 1) |-> 0]
    /\ ip = 0
    /\ op = 0
    /\ count = 0
    /\ toss = 0

\* cq_add that forgets to count a dropped byte
cq_add_no_toss(q, ch) ==
    IF q.count < QSize
    THEN [q EXCEPT !.count = q.count + 1,
                   !.buf = [q.buf EXCEPT ![q.ip] = ch],
                   !.ip = IF q.ip + 1 >= QSize THEN 0 ELSE q.ip + 1]
    ELSE q

\* cq_add that stores the byte of a full queue over the oldest unread one
cq_add_overwrite(q, ch) ==
    IF q.count < QSize
    THEN [q EXCEPT !.count = q.count + 1,
                   !.buf = [q.buf EXCEPT ![q.ip] = ch],
                   !.ip = IF q.ip + 1 >= QSize THEN 0 ELSE q.ip + 1]
    ELSE [q EXCEPT !.toss = q.toss + 1,
                   !.buf = [q.buf EXCEPT ![q.ip] = ch]]

\* the fields of the queue after cq_add(qp, ch), as a record
cq_add(q, ch) ==
    IF q.count < QSize
    THEN [q EXCEPT !.count = q.count + 1,
                   !.buf = [q.buf EXCEPT ![q.ip] = ch],
                   !.ip = IF q.ip + 1 >= QSize THEN 0 ELSE q.ip + 1]
    ELSE [q EXCEPT !.toss = q.toss + 1]

\* cq_remove that wraps the read cursor one slot early
cq_remove_early_wrap(q) ==
    IF q.count < 1
    THEN [q |-> q, ch |-> -1]
    ELSE [q |-> [q EXCEPT !.op = IF q.op + 1 >= QSize - 1 THEN 0 ELSE q.op + 1,
                          !.count = q.count - 1],
          ch |-> q.buf[q.op]]

\* the fields of the queue after cq_remove(qp), and the value it returns
cq_remove(q) ==
    IF q.count < 1
    THEN [q |-> q, ch |-> -1]
    ELSE [q |-> [q EXCEPT !.op = IF q.op + 1 >= QSize THEN 0 ELSE q.op + 1,
                          !.count = q.count - 1],
          ch |-> q.buf[q.op]]

cq_count(q) == q.count

cq_space(q) == QSize - q.count

\* the queue of the current state as a record, and its assignment
Q == [buf |-> qbuf, ip |-> ip, op |-> op, count |-> count, toss |-> toss]

SetQ(q) ==
    /\ qbuf' = q.buf
    /\ ip' = q.ip
    /\ op' = q.op
    /\ count' = q.count
    /\ toss' = q.toss

\* the unread bytes, oldest first: count bytes starting at the read cursor
Contents == [k \in 1..count |-> qbuf[(op + k - 1) % QSize]]

\* nothing was handed to the queue yet
HistInit ==
    /\ added = <<>>
    /\ removed = <<>>
    /\ mixed = FALSE
    /\ accepted = <<>>

\* #define TERMINAL_MAX_CHAR_LENGTH, TERMINAL_MAX_ARG_COUNT of terminal.c
TERMINAL_MAX_CHAR_LENGTH == 64
TERMINAL_MAX_ARG_COUNT == 3

\* no command was dispatched: the command, the line it was read from, and
\* program and argv as C strings
NoCommand == [cmd |-> "none", line |-> <<>>, program |-> <<>>, argv |-> <<<<>>, <<>>, <<>>>>]

\* terminal.c at start-up: the zeroed line buffer
ShellIdle ==
    /\ terminal_buffer = [i \in 0..(TERMINAL_MAX_CHAR_LENGTH - 1) |-> 0]
    /\ terminal_buffer_index = 0
    /\ dispatched = NoCommand

\* the host has not opened the port and no prompt was printed
HostIdle ==
    /\ hpc = "none"
    /\ prompts = 0

\* USB_ISTR_CTR and USB_ISTR_RESET, the two interrupt enables hw_init sets
USB_ISTR_CTR == 32768
USB_ISTR_RESET == 1024

\* if (int_first && int_count++ > 2000) of the interrupt handler
IntLimit == 2000

\* int tmo = 5 * 100 of enum_wait
EnumTmo == 500

\* after hw_init: no interrupt was counted, both interrupts are enabled, and
\* the shell was handed nothing
HandlerIdle ==
    /\ int_count = 0
    /\ int_first = 1
    /\ CNTR = USB_ISTR_CTR + USB_ISTR_RESET
    /\ shell_in = <<>>

\* the poll loop is outside endpoint_recv
ConsumerIdle ==
    /\ cpc = "idle"
    /\ creg = 0
    /\ cn = 0
    /\ ci = 0

(***************************************************************************)
(* Bit operations on register values (16 bits wide).                       *)
(***************************************************************************)
\* (each operand is evaluated once and bound to x, y)
RECURSIVE And(_, _)
And(a, b) ==
    CHOOSE r \in {IF x = 0 \/ y = 0 THEN 0
                  ELSE (x % 2) * (y % 2) + 2 * And(x \div 2, y \div 2) :
                  x \in {a}, y \in {b}} : TRUE

RECURSIVE Or(_, _)
Or(a, b) ==
    CHOOSE r \in {IF x = 0 THEN y
                  ELSE IF y = 0 THEN x
                  ELSE (IF x % 2 = 1 \/ y % 2 = 1 THEN 1 ELSE 0)
                       + 2 * Or(x \div 2, y \div 2) :
                  x \in {a}, y \in {b}} : TRUE

RECURSIVE Xor(_, _)
Xor(a, b) ==
    CHOOSE r \in {IF x = 0 THEN y
                  ELSE IF y = 0 THEN x
                  ELSE (IF x % 2 = y % 2 THEN 0 ELSE 1)
                       + 2 * Xor(x \div 2, y \div 2) :
                  x \in {a}, y \in {b}} : TRUE

\* ~a on the 16 bits of an endpoint register
Not(a) == 65535 - a

(***************************************************************************)
(* The fields of USB_EPnR (stm32f10x.h) and what a write does to them.     *)
(***************************************************************************)
USB_EP0R_EA == 15
USB_EP0R_STAT_TX_0 == 16
USB_EP0R_STAT_TX_1 == 32
USB_EP0R_STAT_TX == 48
USB_EP0R_DTOG_TX == 64
USB_EP0R_CTR_TX == 128
USB_EP0R_EP_KIND == 256
USB_EP0R_EP_TYPE_0 == 512
USB_EP0R_EP_TYPE == 1536
USB_EP0R_SETUP == 2048
USB_EP0R_STAT_RX == 12288
USB_EP0R_DTOG_RX == 16384
USB_EP0R_CTR_RX == 32768

\* the 2-bit status values
DISABLED_ST == 0
STALL_ST == 1
NAK_ST == 2
VALID_ST == 3

StatTx(r) == And(r, USB_EP0R_STAT_TX) \div 16

StatRx(r) == And(r, USB_EP0R_STAT_RX) \div 4096

CtrRx(r) == And(r, USB_EP0R_CTR_RX) # 0

CtrTx(r) == And(r, USB_EP0R_CTR_TX) # 0

\* the register after the value val is stored into it while it holds cur:
\* type, kind and address take the value written, SETUP is read-only, a
\* transfer-complete flag is cleared by writing 0 and kept by writing 1, and a
\* status or data-toggle bit is flipped by writing 1 and kept by writing 0
EprWrite(cur, val) ==
    And(val, USB_EP0R_EP_TYPE + USB_EP0R_EP_KIND + USB_EP0R_EA)
    + And(cur, USB_EP0R_SETUP)
    + And(And(cur, val), USB_EP0R_CTR_RX + USB_EP0R_CTR_TX)
    + And(Xor(cur, val),
          USB_EP0R_DTOG_RX + USB_EP0R_STAT_RX + USB_EP0R_DTOG_TX + USB_EP0R_STAT_TX)

EP_TOGGLE_TX == USB_EP0R_DTOG_RX + USB_EP0R_DTOG_TX + USB_EP0R_STAT_RX

EP_TOGGLE_RX == USB_EP0R_DTOG_RX + USB_EP0R_DTOG_TX + USB_EP0R_STAT_TX

EP_TOGGLE_ALL ==
    USB_EP0R_DTOG_RX + USB_EP0R_DTOG_TX + USB_EP0R_STAT_TX + USB_EP0R_STAT_RX

(***************************************************************************)
(* usb.c, the endpoint register functions: the value each one stores into  *)
(* USB->EPR[ep], computed from the value r it read there.                  *)
(***************************************************************************)
endpoint_set_rx_ready(r) ==
    LET v1 == And(r, Not(USB_EP0R_CTR_RX))
        v2 == Or(v1, USB_EP0R_CTR_TX)
        v3 == And(v2, Not(EP_TOGGLE_RX))
    IN Xor(v3, USB_EP0R_STAT_RX)

\* endpoint_clear_rx without the line val &= ~EP_TOGGLE_ALL
endpoint_clear_rx_no_mask(r) == And(r, Not(USB_EP0R_CTR_RX))

endpoint_clear_rx(r) ==
    LET v1 == And(r, Not(USB_EP0R_CTR_RX))
    IN And(v1, Not(EP_TOGGLE_ALL))

endpoint_clear_tx(r) ==
    LET v1 == And(r, Not(USB_EP0R_CTR_TX))
        v2 == Or(v1, USB_EP0R_CTR_RX)
    IN And(v2, Not(EP_TOGGLE_ALL))

\* val &= ~USB_EP0R_CTR_RX | USB_EP0R_CTR_TX: ~ binds tighter than |
endpoint_stall(r) ==
    LET v1 == And(r, Or(Not(USB_EP0R_CTR_RX), USB_EP0R_CTR_TX))
        v2 == And(v1, Not(EP_TOGGLE_RX))
    IN Xor(v2, USB_EP0R_STAT_TX_0)

endpoint_set_tx_valid(r) ==
    LET v1 == And(r, Not(USB_EP0R_CTR_TX))
        v2 == Or(v1, USB_EP0R_CTR_RX)
        v3 == And(v2, Not(EP_TOGGLE_TX))
    IN Xor(v3, USB_EP0R_STAT_TX)

\* endpoint_set_tx_nak that stores the wanted status instead of the toggle mask
endpoint_set_tx_nak_plain(r) ==
    LET v1 == And(r, Not(USB_EP0R_CTR_TX))
        v2 == Or(v1, USB_EP0R_CTR_RX)
        v3 == And(v2, Not(EP_TOGGLE_ALL))
    IN Or(v3, USB_EP0R_STAT_TX_1)

endpoint_set_tx_nak(r) ==
    LET v1 == And(r, Not(USB_EP0R_CTR_TX))
        v2 == Or(v1, USB_EP0R_CTR_RX)
        v3 == And(v2, Not(EP_TOGGLE_TX))
    IN Xor(v3, USB_EP0R_STAT_TX_1)

EP0R == 0
EP1R == 1

\* endpoint_init: the type and address stored into each register
\* (CONTROL, address 0 and BULK, address 1)
EpConfig(ep) == IF ep = EP0R THEN USB_EP0R_EP_TYPE_0 ELSE 1

(***************************************************************************)
(* SpecEpr: each register function applied to a register holding any       *)
(* combination of the flags, toggles and status values the hardware and    *)
(* the driver can leave in it.                                             *)
(***************************************************************************)
EprValues(ep) ==
    {EpConfig(ep) + crx * USB_EP0R_CTR_RX + drx * USB_EP0R_DTOG_RX
       + srx * 4096 + su * USB_EP0R_SETUP + ctx * USB_EP0R_CTR_TX
       + dtx * USB_EP0R_DTOG_TX + stx * 16 :
       crx \in 0..1, drx \in 0..1, srx \in 0..3, su \in 0..1,
       ctx \in 0..1, dtx \in 0..1, stx \in 0..3}

EprOps ==
    {"set_rx_ready", "clear_rx", "clear_tx", "stall", "set_tx_valid", "set_tx_nak"}

\* the value the function named op stores, having read r
EprValue(fn, r) ==
    CASE fn = "set_rx_ready" -> endpoint_set_rx_ready(r)
      [] fn = "clear_rx" -> endpoint_clear_rx(r)
      [] fn = "clear_tx" -> endpoint_clear_tx(r)
      [] fn = "stall" -> endpoint_stall(r)
      [] fn = "set_tx_valid" -> endpoint_set_tx_valid(r)
      [] fn = "set_tx_nak" -> endpoint_set_tx_nak(r)

(***************************************************************************)
(* usb.c and usb_enum.c: the driver.  Its state is handled as a record d   *)
(* (the variables of the same names), so that a handler is the composition *)
(* of the functions it calls.                                              *)
(***************************************************************************)
F_RX_BUSY == 1
F_TX_BUSY == 2
F_TX_REM == 128
ENDPOINT_LIMIT == 64
SETUP_BUF == 10
USB_DADDR_EF == 128
Eps == {EP0R, EP1R}

\* flags |= f and flags &= ~f on the uint8_t flags of an endpoint
SetFlag(d, ep, f) == [d EXCEPT !.flags[ep] = Or(@, f)]

ClearFlag(d, ep, f) == [d EXCEPT !.flags[ep] = And(@, 255 - f)]

HasFlag(d, ep, f) == And(d.flags[ep], f) # 0

\* the read-modify-write of USB->EPR[ep] by the register function named fn
EprApply(d, ep, fn) ==
    [d EXCEPT !.EPR[ep] = EprWrite(@, EprValue(fn, @))]

\* static void set_address(int addr), usb.c
hw_set_address(d, addr) == [d EXCEPT !.DADDR = USB_DADDR_EF + (addr % 128)]

\* void usb_pend_address(int addr)
usb_pend_address(d, addr) == [d EXCEPT !.pending_address = addr]

\* endpoint_init: every register is written 0, then type and address, the
\* buffer table entries are set up, both endpoints are made ready to receive
\* and NAK to transmit, and the flags are cleared
endpoint_init(d) ==
    LET d1 == [d EXCEPT !.EPR = [ep \in Eps |-> EprWrite(EprWrite(d.EPR[ep], 0), EpConfig(ep))],
                        !.tx_count = [ep \in Eps |-> 0],
                        !.rx_count = [ep \in Eps |-> 0]]
        d2 == EprApply(EprApply(d1, EP0R, "set_rx_ready"), EP0R, "set_tx_nak")
        d3 == EprApply(EprApply(d2, EP1R, "set_rx_ready"), EP1R, "set_tx_nak")
    IN [d3 EXCEPT !.flags = [ep \in Eps |-> 0]]

\* static void reset()
reset(d) == hw_set_address(endpoint_init(d), 0)

\* the bytes buf[off .. off+len-1] of the buffer named buf, as pma_copy_out
\* leaves them in the transmit buffer of an endpoint
Slice(buf, off, len) == [buf |-> buf, off |-> off, len |-> len]

\* usb_endpoint_send that hands the whole buffer to the first transfer
usb_endpoint_send_whole(d, ep, buf, cnt) ==
    IF cnt <= ENDPOINT_LIMIT
    THEN EprApply([d EXCEPT !.tx_count[ep] = cnt,
                            !.pma_tx[ep] = Slice(buf, 0, cnt)],
                  ep, "set_tx_valid")
    ELSE LET d1 == [d EXCEPT !.tx_rem = [buf |-> buf, off |-> ENDPOINT_LIMIT],
                             !.tx_rem_count = cnt - ENDPOINT_LIMIT]
             d2 == SetFlag(d1, ep, F_TX_REM)
         IN EprApply([d2 EXCEPT !.tx_count[ep] = cnt,
                                !.pma_tx[ep] = Slice(buf, 0, cnt)],
                     ep, "set_tx_valid")

\* void usb_endpoint_send(int ep, char *buf, int count)
usb_endpoint_send(d, ep, buf, cnt) ==
    IF cnt <= ENDPOINT_LIMIT
    THEN EprApply([d EXCEPT !.tx_count[ep] = cnt,
                            !.pma_tx[ep] = Slice(buf, 0, cnt)],
                  ep, "set_tx_valid")
    ELSE LET d1 == [d EXCEPT !.tx_rem = [buf |-> buf, off |-> ENDPOINT_LIMIT],
                             !.tx_rem_count = cnt - ENDPOINT_LIMIT]
             d2 == SetFlag(d1, ep, F_TX_REM)
         IN EprApply([d2 EXCEPT !.tx_count[ep] = ENDPOINT_LIMIT,
                                !.pma_tx[ep] = Slice(buf, 0, ENDPOINT_LIMIT)],
                     ep, "set_tx_valid")

\* void usb_endpoint_send_zlp(int ep)
usb_endpoint_send_zlp(d, ep) ==
    EprApply([d EXCEPT !.tx_count[ep] = 0], ep, "set_tx_valid")

\* static void endpoint_rem(int ep)
endpoint_rem(d, ep) ==
    LET d1 == [d EXCEPT !.tx_count[ep] = d.tx_rem_count,
                        !.pma_tx[ep] = Slice(d.tx_rem.buf, d.tx_rem.off, d.tx_rem_count)]
    IN ClearFlag(EprApply(d1, ep, "set_tx_valid"), ep, F_TX_REM)

\* static void endpoint_recv_ready(int ep): the received count is zeroed
endpoint_recv_ready(d, ep) ==
    EprApply([d EXCEPT !.rx_count[ep] = 0], ep, "set_rx_ready")

\* a panic that prints and returns
panic_returns(d) == d

\* void panic(char *string): the firmware spins for ever
panic(d) == [d EXCEPT !.halted = TRUE]

(***************************************************************************)
(* usb_enum.c                                                              *)
(***************************************************************************)
\* the fields of struct setup read from the received bytes (little endian)
SetupOf(buf) ==
    [rtype |-> buf[1], request |-> buf[2],
     value |-> buf[3] + 256 * buf[4],
     index |-> buf[5] + 256 * buf[6],
     length |-> buf[7] + 256 * buf[8]]

\* sizeof(my_device_desc), sizeof(my_config_desc), sizeof(my_language_string_desc)
DeviceDescLen == 18
ConfigDescLen == 32
LangDescLen == 4

\* strlen(my_strings[index]) for index 1..3
StringLen(index) ==
    CASE index = 1 -> 14
      [] index = 2 -> 18
      [] index = 3 -> 4

\* the name of the buffer holding my_strings[index] widened to 16-bit units
StringName(index) ==
    CASE index = 1 -> "string_1"
      [] index = 2 -> "string_2"
      [] index = 3 -> "string_3"

\* static int string_send(int index)
string_send(d, index) ==
    IF index = 0
    THEN usb_endpoint_send(d, 0, "my_language_string_desc", LangDescLen)
    ELSE IF index < 1 \/ index > 3
    THEN panic(d)
    ELSE usb_endpoint_send(d, 0, StringName(index), 2 + 2 * StringLen(index))

\* get_descriptor that sends the whole configuration descriptor whatever the
\* requested length
get_descriptor_unclamped(d, sp) ==
    LET type == sp.value \div 256
        index == sp.value % 256
    IN CASE type = 1 -> usb_endpoint_send(d, 0, "my_device_desc", DeviceDescLen)
         [] type = 6 -> usb_endpoint_send_zlp(d, 0)
         [] type = 2 -> usb_endpoint_send(d, 0, "my_config_desc", ConfigDescLen)
         [] type = 3 -> string_send(d, index)
         [] OTHER -> d

\* static int get_descriptor(struct setup *sp)
get_descriptor(d, sp) ==
    LET type == sp.value \div 256
        index == sp.value % 256
    IN CASE type = 1 -> usb_endpoint_send(d, 0, "my_device_desc", DeviceDescLen)
         [] type = 6 -> usb_endpoint_send_zlp(d, 0)
         [] type = 2 -> usb_endpoint_send(d, 0, "my_config_desc",
                                          IF ConfigDescLen > sp.length
                                          THEN sp.length ELSE ConfigDescLen)
         [] type = 3 -> string_send(d, index)
         [] OTHER -> d

\* set_address that writes the address register at once
set_address_now(d, sp) == usb_endpoint_send_zlp(hw_set_address(d, sp.value), 0)

\* static int set_address(struct setup *sp), usb_enum.c
set_address(d, sp) == usb_endpoint_send_zlp(usb_pend_address(d, sp.value), 0)


\* static int set_configuration(struct setup *sp)
set_configuration(d, sp) ==
    [usb_endpoint_send_zlp(d, 0) EXCEPT !.usb_current_state = "CONFIGURED"]

\* static int cp21_enable(struct setup *sp)
cp21_enable(d, sp) ==
    usb_endpoint_send_zlp(
        [d EXCEPT !.uart_current_state = IF sp.value = 1 THEN "ENABLED" ELSE "DISABLED"],
        0)

\* static int cp21_set_modem(struct setup *sp)
cp21_set_modem(d, sp) ==
    usb_endpoint_send_zlp(
        [d EXCEPT !.usb_inital_prompt_pending = IF sp.value % 2 = 1 THEN 1 ELSE @],
        0)

\* int usb_setup(char *buf, int count)
usb_setup(d, buf, cnt) ==
    IF cnt = 0 THEN d
    ELSE LET sp == SetupOf(buf)
             tag == sp.rtype * 256 + sp.request
             d1 == [d EXCEPT !.cp21_control = "NONE"]
         IN IF sp.rtype = 33 THEN usb_endpoint_send_zlp(d, 0)
            ELSE CASE tag = 32774 -> get_descriptor(d1, sp)
                   [] tag = 5 -> set_address(d1, sp)
                   [] tag = 9 -> set_configuration(d1, sp)
                   [] tag = 49407 -> usb_endpoint_send(d1, 0, "part_number", 1)
                   [] tag = 16640 -> cp21_enable(d1, sp)
                   [] tag = 16670 ->
                        usb_endpoint_send_zlp([d1 EXCEPT !.cp21_control = "BAUD"], 0)
                   [] tag = 16643 -> usb_endpoint_send_zlp(d1, 0)
                   [] tag = 16665 ->
                        usb_endpoint_send_zlp([d1 EXCEPT !.cp21_control = "CHARS"], 0)
                   [] tag = 49428 -> usb_endpoint_send_zlp(d1, 0)
                   [] tag = 49416 -> usb_endpoint_send(d1, 0, "modem_status", 1)
                   [] tag = 16647 -> cp21_set_modem(d1, sp)
                   [] tag = 49424 -> usb_endpoint_send(d1, 0, "cp21_status_response", 2)
                   [] OTHER -> d1

\* int usb_control(char *buf, int count): the payload goes into cp21_baud or
\* cp21_chars, which nothing reads; otherwise a zero-length packet is armed
usb_control(d, buf, cnt) ==
    IF d.cp21_control = "BAUD" \/ d.cp21_control = "CHARS"
    THEN d
    ELSE usb_endpoint_send_zlp(d, 0)


\* the driver's variables as a record, and their assignment from a record
D ==
    [EPR |-> EPR, DADDR |-> DADDR, tx_count |-> tx_count, rx_count |-> rx_count,
     pma_tx |-> pma_tx, flags |-> flags, pending_address |-> pending_address,
     tx_rem |-> tx_rem, tx_rem_count |-> tx_rem_count,
     usb_current_state |-> usb_current_state,
     uart_current_state |-> uart_current_state,
     usb_inital_prompt_pending |-> usb_inital_prompt_pending,
     cp21_control |-> cp21_control, halted |-> halted]

SetD(d) ==
    \E n \in {d} :
        /\ EPR' = n.EPR
        /\ DADDR' = n.DADDR
        /\ tx_count' = n.tx_count
        /\ rx_count' = n.rx_count
        /\ pma_tx' = n.pma_tx
        /\ flags' = n.flags
        /\ pending_address' = n.pending_address
        /\ tx_rem' = n.tx_rem
        /\ tx_rem_count' = n.tx_rem_count
        /\ usb_current_state' = n.usb_current_state
        /\ uart_current_state' = n.uart_current_state
        /\ usb_inital_prompt_pending' = n.usb_inital_prompt_pending
        /\ cp21_control' = n.cp21_control
        /\ halted' = n.halted

\* no step of the driver was the last one taken
NoStep ==
    [what |-> "none", tag |-> 0, value |-> 0, ep |-> 0, len |-> 0,
     daddr |-> 0, pend |-> 0, rem |-> FALSE]

\* the step of the driver just taken: its kind, the request and value of a
\* SETUP, the endpoint and length, and the address register, the pending
\* address and the continuation flag of the endpoint it started from
Note(what, tag, value, ep, len) ==
    last' = [what |-> what, tag |-> tag, value |-> value, ep |-> ep, len |-> len,
             daddr |-> DADDR, pend |-> pending_address,
             rem |-> HasFlag(D, ep, F_TX_REM)]

\* the driver at the entry of enum_wait: hw_init(), reset() and
\* usb_current_state = INIT have run and no interrupt was taken
Boot ==
    LET d0 == [EPR |-> [ep \in Eps |-> 0], DADDR |-> 0,
               tx_count |-> [ep \in Eps |-> 0], rx_count |-> [ep \in Eps |-> 0],
               pma_tx |-> [ep \in Eps |-> Slice("none", 0, 0)],
               flags |-> [ep \in Eps |-> 0], pending_address |-> 0,
               tx_rem |-> [buf |-> "none", off |-> 0], tx_rem_count |-> 0,
               usb_current_state |-> "BOOT", uart_current_state |-> "DISABLED",
               usb_inital_prompt_pending |-> 0, cp21_control |-> "NONE",
               halted |-> FALSE]
        d1 == reset(hw_set_address(endpoint_init(d0), 0))
    IN [d1 EXCEPT !.usb_current_state = "INIT"]

\* the variables of the driver other than the endpoint registers, at the
\* entry of enum_wait
DriverIdle ==
    /\ DADDR = Boot.DADDR
    /\ tx_count = Boot.tx_count
    /\ rx_count = Boot.rx_count
    /\ pma_tx = Boot.pma_tx
    /\ flags = Boot.flags
    /\ pending_address = Boot.pending_address
    /\ tx_rem = Boot.tx_rem
    /\ tx_rem_count = Boot.tx_rem_count
    /\ usb_current_state = Boot.usb_current_state
    /\ uart_current_state = Boot.uart_current_state
    /\ usb_inital_prompt_pending = Boot.usb_inital_prompt_pending
    /\ cp21_control = Boot.cp21_control
    /\ halted = Boot.halted
    /\ ISTR_RESET = FALSE
    /\ pma_rx = [ep \in Eps |-> <<>>]
    /\ ipc = "none"
    /\ mpc = "enum_wait"
    /\ mlen = 0
    /\ last = NoStep
    /\ HostIdle
    /\ ShellIdle
    /\ HandlerIdle
    /\ tmo = EnumTmo

DriverInit ==
    /\ DriverIdle
    /\ EPR = Boot.EPR
    /\ eprOp = [op |-> "none", ep |-> 0, before |-> 0, val |-> 0]

\* val = USB->EPR[ep]; ...; USB->EPR[ep] = val
EprCall ==
    \E fn \in EprOps :
        LET ep == eprOp.ep
            val == EprValue(fn, EPR[ep])
        IN
        /\ EPR' = [EPR EXCEPT ![ep] = EprWrite(EPR[ep], val)]
        /\ eprOp' = [op |-> fn, ep |-> ep, before |-> EPR[ep], val |-> val]
        /\ UNCHANGED <<xvars, qvars, hvars, cvars, dvars, pvars, tvars>>

EprInit ==
    /\ cq_init /\ HistInit /\ ConsumerIdle /\ DriverIdle
    /\ \E ep \in {EP0R, EP1R} :
           /\ EPR \in {[e \in {EP0R, EP1R} |-> IF e = ep THEN v ELSE EpConfig(e)] :
                          v \in EprValues(ep)}
           /\ eprOp = [op |-> "none", ep |-> ep, before |-> 0, val |-> 0]

EprNext == EprCall

SpecEpr == EprInit /\ [][EprNext]_vars

(***************************************************************************)
(* SpecQueue: cq_add and cq_remove called one at a time, in any order.     *)
(***************************************************************************)
\* the history after cq_add is handed ch
NoteAdd(ch) ==
    /\ added' = Append(added, ch)
    /\ mixed' = (mixed \/ removed # <<>>)
    /\ accepted' = IF Len(accepted) - Len(removed) < QSize
                   THEN Append(accepted, ch)
                   ELSE accepted

CallAdd ==
    \E ch \in Byte :
        /\ Len(added) < MaxAdds
        /\ SetQ(cq_add(Q, ch))
        /\ NoteAdd(ch)
        /\ UNCHANGED <<xvars, removed, cvars, evars, dvars, pvars, tvars>>

CallRemove ==
    LET r == cq_remove(Q) IN
    /\ SetQ(r.q)
    /\ removed' = IF r.ch = -1 THEN removed ELSE Append(removed, r.ch)
    /\ UNCHANGED <<xvars, added, mixed, accepted, cvars, evars, dvars, pvars, tvars>>

QueueInit == cq_init /\ HistInit /\ ConsumerIdle /\ DriverInit

QueueNext == CallAdd \/ CallRemove

SpecQueue == QueueInit /\ [][QueueNext]_vars

(***************************************************************************)
(* SpecIsr: the poll loop walks through endpoint_recv and cq_remove one    *)
(* memory access at a time; the receive interrupt (the loop of data_ctr    *)
(* over a received packet) runs to completion between any two of them.     *)
(***************************************************************************)
\* sizeof(buf) in init_terminal, the limit handed to endpoint_recv
RecvLimit == 2

Packets == UNION {[1..n -> Byte] : n \in 1..MaxPkt}

RECURSIVE QueuePacket(_, _, _)
\* data_ctr: for (i = 0; i < count; i++) if (cq_space > 0) cq_add(inbuf[i]);
\* the queue after the loop and the bytes handed to cq_add
QueuePacket(q, pkt, pushed) ==
    IF pkt = <<>>
    THEN [q |-> q, pushed |-> pushed]
    ELSE IF cq_space(q) > 0
         THEN QueuePacket(cq_add(q, Head(pkt)), Tail(pkt), Append(pushed, Head(pkt)))
         ELSE QueuePacket(q, Tail(pkt), pushed)

\* the receive interrupt: a packet of the host is queued
IsrReceive ==
    \E pkt \in Packets :
        LET r == QueuePacket(Q, pkt, <<>>) IN
        /\ Len(added) + Len(pkt) <= MaxAdds
        /\ SetQ(r.q)
        /\ added' = added \o r.pushed
        /\ UNCHANGED <<xvars, removed, mixed, accepted, cvars, evars, dvars, pvars, tvars>>

\* init_terminal: if (cq_count(&in_queue) > 0) endpoint_recv(...)
PollCheck ==
    /\ cpc = "idle"
    /\ cq_count(Q) > 0
    /\ cpc' = "recv_wait"
    /\ UNCHANGED <<xvars, qvars, hvars, creg, cn, ci, evars, dvars, pvars, tvars>>

\* endpoint_recv: while (cq_count(&in_queue) < 1) ;
RecvWait ==
    /\ cpc = "recv_wait"
    /\ ~(cq_count(Q) < 1)
    /\ cpc' = "recv_n"
    /\ UNCHANGED <<xvars, qvars, hvars, creg, cn, ci, evars, dvars, pvars, tvars>>

\* endpoint_recv: n = cq_count(&in_queue); if (n > limit) n = limit; i = 0
RecvCount ==
    /\ cpc = "recv_n"
    /\ cn' = IF cq_count(Q) > RecvLimit THEN RecvLimit ELSE cq_count(Q)
    /\ ci' = 0
    /\ cpc' = "loop"
    /\ UNCHANGED <<xvars, qvars, hvars, creg, evars, dvars, pvars, tvars>>

\* endpoint_recv: for (i = 0; i < n; i++) buf[i] = cq_remove(...); return n
RecvLoop ==
    /\ cpc = "loop"
    /\ cpc' = IF ci < cn THEN "rm_check" ELSE "idle"
    /\ UNCHANGED <<xvars, qvars, hvars, creg, cn, ci, evars, dvars, pvars, tvars>>

\* cq_remove: if (qp->count < 1) return -1;
RmCheck ==
    /\ cpc = "rm_check"
    /\ creg' = count
    /\ IF count < 1
       THEN cpc' = "loop" /\ ci' = ci + 1
       ELSE cpc' = "rm_read" /\ ci' = ci
    /\ UNCHANGED <<xvars, qvars, hvars, cn, evars, dvars, pvars, tvars>>

\* cq_remove: ch = *(qp->op)++; returned once count is stored
RmRead ==
    /\ cpc = "rm_read"
    /\ op' = op + 1
    /\ cpc' = "rm_wrap"
    /\ UNCHANGED <<xvars, qbuf, ip, count, toss, hvars, creg, cn, ci, evars, dvars, pvars, tvars>>

\* cq_remove: if (qp->op >= qp->limit) qp->op = qp->bp;
RmWrap ==
    /\ cpc = "rm_wrap"
    /\ op' = IF op >= QSize THEN 0 ELSE op
    /\ cpc' = "rm_dec"
    /\ UNCHANGED <<xvars, qbuf, ip, count, toss, hvars, creg, cn, ci, evars, dvars, pvars, tvars>>

\* cq_remove: qp->count--, the load. count is not volatile: the build may
\* load it again here or keep the value loaded for the test above.
RmLoad ==
    /\ cpc = "rm_dec"
    /\ creg' \in {count, creg}
    /\ cpc' = "rm_store"
    /\ UNCHANGED <<xvars, qvars, hvars, cn, ci, evars, dvars, pvars, tvars>>

\* the byte cq_remove is about to return: the one before the advanced cursor
RmChar == qbuf[(op + QSize - 1) % QSize]

\* cq_remove: qp->count--, the store; return ch
RmStore ==
    /\ cpc = "rm_store"
    /\ count' = creg - 1
    /\ removed' = Append(removed, RmChar)
    /\ ci' = ci + 1
    /\ cpc' = "loop"
    /\ UNCHANGED <<xvars, qbuf, ip, op, toss, added, mixed, accepted, creg, cn, evars, dvars, pvars, tvars>>

IsrInit == cq_init /\ HistInit /\ ConsumerIdle /\ DriverInit

IsrNext ==
    \/ IsrReceive
    \/ PollCheck
    \/ RecvWait
    \/ RecvCount
    \/ RecvLoop
    \/ RmCheck
    \/ RmRead
    \/ RmWrap
    \/ RmLoad
    \/ RmStore

SpecIsr == IsrInit /\ [][IsrNext]_vars

(***************************************************************************)
(* The host and the USB peripheral.                                        *)
(***************************************************************************)
\* the device answers on the bus once the driver has set the enable bit
Enabled == DADDR >= USB_DADDR_EF

\* the register of ep after a transaction completed: the flag is raised and
\* the status of the direction drops to NAK
HwRxDone(r, setup) ==
    LET r1 == Or(And(r, Not(USB_EP0R_STAT_RX + USB_EP0R_SETUP)),
                 USB_EP0R_CTR_RX + NAK_ST * 4096)
    IN IF setup
       THEN Or(And(r1, Not(USB_EP0R_STAT_TX)), USB_EP0R_SETUP + NAK_ST * 16)
       ELSE r1

HwTxDone(r) ==
    Or(And(r, Not(USB_EP0R_STAT_TX)), USB_EP0R_CTR_TX + NAK_ST * 16)

SetAddressPkt(a) == <<0, 5, a % 256, a \div 256, 0, 0, 0, 0>>
SetConfigurationPkt == <<0, 9, 1, 0, 0, 0, 0, 0>>
GetDescriptorPkt(type, index, n) == <<128, 6, index, type, 0, 0, n % 256, n \div 256>>
VendorPkt(request, value) == <<65, request, value % 256, value \div 256, 0, 0, 0, 0>>

Addrs == (1..MaxAddr) \cup {127}

HostSetups ==
    {SetAddressPkt(a) : a \in Addrs}
    \cup {SetConfigurationPkt, GetDescriptorPkt(1, 0, 18), VendorPkt(0, 1)}

\* a SETUP packet arrives on endpoint 0: it is taken whatever the receive
\* status unless the endpoint is disabled or the previous reception has not
\* been acknowledged
HostSetup ==
    \E pkt \in HostSetups :
        /\ Enabled
        /\ ~CtrRx(EPR[EP0R])
        /\ StatRx(EPR[EP0R]) # DISABLED_ST
        /\ EPR' = [EPR EXCEPT ![EP0R] = HwRxDone(@, TRUE)]
        /\ rx_count' = [rx_count EXCEPT ![EP0R] = 8]
        /\ pma_rx' = [pma_rx EXCEPT ![EP0R] = pkt]
        /\ last' = NoStep
        /\ UNCHANGED <<xvars, qvars, hvars, cvars, pvars, tvars, eprOp, DADDR, ISTR_RESET, tx_count, pma_tx,
                       flags, pending_address, tx_rem, tx_rem_count, usb_current_state,
                       uart_current_state, usb_inital_prompt_pending, cp21_control,
                       halted, ipc, mpc, mlen>>

\* an OUT packet of n bytes arrives on endpoint 0 (a data stage, or the
\* zero-length status stage of a read)
HostOut0 ==
    \E n \in 0..MaxOut0 :
        /\ Enabled
        /\ StatRx(EPR[EP0R]) = VALID_ST
        /\ EPR' = [EPR EXCEPT ![EP0R] = HwRxDone(@, FALSE)]
        /\ rx_count' = [rx_count EXCEPT ![EP0R] = n]
        /\ pma_rx' = [pma_rx EXCEPT ![EP0R] = [i \in 1..n |-> 0]]
        /\ last' = NoStep
        /\ UNCHANGED <<xvars, qvars, hvars, cvars, pvars, tvars, eprOp, DADDR, ISTR_RESET, tx_count, pma_tx,
                       flags, pending_address, tx_rem, tx_rem_count, usb_current_state,
                       uart_current_state, usb_inital_prompt_pending, cp21_control,
                       halted, ipc, mpc, mlen>>

\* the host reads the packet armed on endpoint ep with an IN token
HostIn ==
    \E ep \in Eps :
        /\ Enabled
        /\ StatTx(EPR[ep]) = VALID_ST
        /\ EPR' = [EPR EXCEPT ![ep] = HwTxDone(@)]
        /\ last' = NoStep
        /\ UNCHANGED <<xvars, qvars, hvars, cvars, pvars, tvars, eprOp, DADDR, ISTR_RESET, tx_count, rx_count,
                       pma_tx, pma_rx, flags, pending_address, tx_rem, tx_rem_count,
                       usb_current_state, uart_current_state, usb_inital_prompt_pending,
                       cp21_control, halted, ipc, mpc, mlen>>

\* a bus reset: the peripheral clears the address register and the endpoint
\* registers except their transfer-complete flags, and raises RESET in ISTR
HostReset ==
    /\ ~ISTR_RESET
    /\ ISTR_RESET' = TRUE
    /\ DADDR' = 0
    /\ EPR' = [ep \in Eps |-> And(EPR[ep], USB_EP0R_CTR_RX + USB_EP0R_CTR_TX)]
    /\ last' = NoStep
    /\ UNCHANGED <<xvars, qvars, hvars, cvars, pvars, tvars, eprOp, tx_count, rx_count, pma_tx, pma_rx,
                   flags, pending_address, tx_rem, tx_rem_count, usb_current_state,
                   uart_current_state, usb_inital_prompt_pending, cp21_control,
                   halted, ipc, mpc, mlen>>


(***************************************************************************)
(* usb.c: the interrupt handler.                                           *)
(***************************************************************************)
\* ISTR.CTR: some endpoint has a transfer-complete flag up
IstrCtr(d) == \E ep \in Eps : CtrRx(d.EPR[ep]) \/ CtrTx(d.EPR[ep])

\* ISTR & 0xf: the lowest endpoint with a transfer-complete flag up
IstrEpId(d) ==
    IF CtrRx(d.EPR[EP0R]) \/ CtrTx(d.EPR[EP0R]) THEN EP0R ELSE EP1R

\* the interrupt is requested (hw_init enables CTR and RESET in CNTR)
IrqPending == ISTR_RESET \/ IstrCtr(D)

\* ctr0, the receive-complete branch: the driver after it, what it handled,
\* and whether ctr0 is over (it returned, or panic stopped the firmware)
ctr0_rx(d, rxbuf) ==
    LET cnt == d.rx_count[EP0R] IN
    IF cnt > SETUP_BUF
    THEN [d |-> panic(d), what |-> "panic", over |-> TRUE]
    ELSE LET setup == And(d.EPR[EP0R], USB_EP0R_SETUP) # 0
             d1 == EprApply(d, EP0R, "clear_tx")
             d2 == endpoint_recv_ready(d1, EP0R)
         IN IF cnt = 1
            THEN [d |-> d2, what |-> "ack", over |-> TRUE]
            ELSE IF setup
            THEN LET d3 == usb_setup(d2, rxbuf, cnt)
                 IN [d |-> d3, what |-> "setup", over |-> d3.halted]
            ELSE [d |-> usb_control(d2, rxbuf, cnt), what |-> "control", over |-> FALSE]

\* ctr0, the transmit-complete branch
ctr0_tx(d) ==
    IF CtrTx(d.EPR[EP0R])
    THEN LET d1 == EprApply(d, EP0R, "clear_tx") IN
         IF d1.pending_address # 0
         THEN [hw_set_address(d1, d1.pending_address) EXCEPT !.pending_address = 0]
         ELSE IF HasFlag(d1, EP0R, F_TX_REM)
         THEN endpoint_rem(d1, EP0R)
         ELSE ClearFlag(d1, EP0R, F_TX_BUSY)
    ELSE d

\* data_ctr whose transmit-complete branch leaves F_TX_BUSY set
data_ctr_keeps_busy(d, q, ep, rxbuf) ==
    IF CtrTx(d.EPR[ep])
    THEN [d |-> EprApply(d, ep, "clear_tx"),
          q |-> q, pushed |-> <<>>, what |-> "data_tx"]
    ELSE IF CtrRx(d.EPR[ep])
    THEN LET d1 == EprApply(d, ep, "clear_rx")
             r == QueuePacket(q, SubSeq(rxbuf, 1, d.rx_count[ep]), <<>>)
         IN [d |-> endpoint_recv_ready(d1, ep), q |-> r.q, pushed |-> r.pushed,
             what |-> "data_rx"]
    ELSE [d |-> d, q |-> q, pushed |-> <<>>, what |-> "data_none"]

\* data_ctr: the driver and the queue after it, and what it handled
data_ctr(d, q, ep, rxbuf) ==
    IF CtrTx(d.EPR[ep])
    THEN [d |-> ClearFlag(EprApply(d, ep, "clear_tx"), ep, F_TX_BUSY),
          q |-> q, pushed |-> <<>>, what |-> "data_tx"]
    ELSE IF CtrRx(d.EPR[ep])
    THEN LET d1 == EprApply(d, ep, "clear_rx")
             r == QueuePacket(q, SubSeq(rxbuf, 1, d.rx_count[ep]), <<>>)
         IN [d |-> endpoint_recv_ready(d1, ep), q |-> r.q, pushed |-> r.pushed,
             what |-> "data_rx"]
    ELSE [d |-> d, q |-> q, pushed |-> <<>>, what |-> "data_none"]

\* USB_LP_CAN1_RX0_IRQHandler from if (USB->ISTR & USB_ISTR_RESET) up to the
\* end of the receive branch of ctr0
IrqHandler ==
    /\ ~halted
    /\ ipc = "none"
    /\ IrqPending
    /\ ISTR_RESET' = FALSE
    /\ LET d1 == IF ISTR_RESET THEN reset(D) ELSE D IN
       IF ~IstrCtr(d1)
       THEN /\ SetD(d1)
            /\ ipc' = "none"
            /\ Note("reset", 0, 0, 0, 0)
            /\ UNCHANGED <<qvars, added>>
       ELSE IF IstrEpId(d1) = EP0R
       THEN IF CtrRx(d1.EPR[EP0R])
            THEN LET r == ctr0_rx(d1, pma_rx[EP0R])
                     sp == SetupOf(pma_rx[EP0R])
                 IN /\ SetD(r.d)
                    /\ ipc' = IF r.over THEN "none" ELSE "ctr0_tx"
                    /\ IF r.what = "setup"
                       THEN Note("setup", sp.rtype * 256 + sp.request, sp.value, EP0R, 0)
                       ELSE Note(r.what, 0, 0, EP0R, rx_count[EP0R])
                    /\ UNCHANGED <<qvars, added>>
            ELSE /\ SetD(d1)
                 /\ ipc' = "ctr0_tx"
                 /\ Note("ctr0", 0, 0, EP0R, 0)
                 /\ UNCHANGED <<qvars, added>>
       ELSE LET r == data_ctr(d1, Q, IstrEpId(d1), pma_rx[IstrEpId(d1)]) IN
            /\ SetD(r.d)
            /\ SetQ(r.q)
            /\ added' = added \o r.pushed
            /\ ipc' = "none"
            /\ Note(r.what, 0, 0, IstrEpId(d1), tx_count[IstrEpId(d1)])
    /\ UNCHANGED <<tmo, shell_in, removed, mixed, accepted, cvars, pvars, tvars, eprOp, pma_rx, mpc, mlen>>

\* the handler in one of the first IntLimit interrupts after power-up, the
\* interrupts taken left uncounted
Irq == IrqHandler /\ UNCHANGED <<int_count, int_first, CNTR>>

\* ctr0 from if (USB->EPR[EP0R] & USB_EP0R_CTR_TX) on, and the handler's return
Ctr0Tx ==
    /\ ~halted
    /\ ipc = "ctr0_tx"
    /\ SetD(ctr0_tx(D))
    /\ ipc' = "none"
    /\ Note(IF CtrTx(EPR[EP0R]) THEN "tx0" ELSE "tx0_none", 0, 0, EP0R, tx_count[EP0R])
    /\ UNCHANGED <<xvars, qvars, hvars, cvars, pvars, tvars, eprOp, ISTR_RESET, pma_rx, mpc, mlen>>

(***************************************************************************)
(* usb.c: the main context.  It runs while no interrupt is requested.      *)
(***************************************************************************)
MainRuns == ~halted /\ ipc = "none" /\ ~IrqPending

\* usb_terminal_print hands strings of these lengths to endpoint_send
SendLens == {1, ENDPOINT_LIMIT} \cup {ENDPOINT_LIMIT + k : k \in 1..MaxExtra}

\* enum_wait is over (Configured was seen, or the polls ran out) and
\* init_terminal starts: endpoint_recv_ready(EP1R); flags |= F_RX_BUSY
EnumWaitOver ==
    /\ MainRuns
    /\ mpc = "enum_wait"
    /\ SetD(SetFlag(endpoint_recv_ready(D, EP1R), EP1R, F_RX_BUSY))
    /\ mpc' = "poll"
    /\ last' = NoStep
    /\ UNCHANGED <<xvars, qvars, hvars, cvars, pvars, tvars, eprOp, ISTR_RESET, pma_rx, ipc, mlen>>

\* endpoint_send that tests the device state only
EndpointSendCallAnyUart ==
    \E len \in SendLens :
        /\ MainRuns
        /\ mpc = "poll"
        /\ IF usb_current_state # "CONFIGURED"
           THEN mpc' = "poll" /\ mlen' = mlen /\ Note("refused", 0, 0, EP1R, len)
           ELSE mpc' = "send_wait" /\ mlen' = len /\ last' = NoStep
        /\ UNCHANGED <<xvars, qvars, hvars, cvars, pvars, tvars, evars, DADDR, ISTR_RESET, tx_count, rx_count,
                       pma_tx, pma_rx, flags, pending_address, tx_rem, tx_rem_count,
                       usb_current_state, uart_current_state, usb_inital_prompt_pending,
                       cp21_control, halted, ipc>>

\* usb_terminal_print(string) from the poll loop: endpoint_send up to its
\* busy-wait; it returns at once unless Configured and Enabled
EndpointSendCall ==
    \E len \in SendLens :
        /\ MainRuns
        /\ mpc = "poll"
        /\ IF usb_current_state # "CONFIGURED" \/ uart_current_state # "ENABLED"
           THEN mpc' = "poll" /\ mlen' = mlen /\ Note("refused", 0, 0, EP1R, len)
           ELSE mpc' = "send_wait" /\ mlen' = len /\ last' = NoStep
        /\ UNCHANGED <<xvars, qvars, hvars, cvars, pvars, tvars, evars, DADDR, ISTR_RESET, tx_count, rx_count,
                       pma_tx, pma_rx, flags, pending_address, tx_rem, tx_rem_count,
                       usb_current_state, uart_current_state, usb_inital_prompt_pending,
                       cp21_control, halted, ipc>>

\* endpoint_send: while (flags & F_TX_BUSY) ; flags |= F_TX_BUSY
EndpointSendWait ==
    /\ MainRuns
    /\ mpc = "send_wait"
    /\ ~HasFlag(D, EP1R, F_TX_BUSY)
    /\ SetD(SetFlag(D, EP1R, F_TX_BUSY))
    /\ mpc' = "send_go"
    /\ last' = NoStep
    /\ UNCHANGED <<xvars, qvars, hvars, cvars, pvars, tvars, eprOp, ISTR_RESET, pma_rx, ipc, mlen>>

\* endpoint_send: usb_endpoint_send(ep, buf, count)
EndpointSendGo ==
    /\ MainRuns
    /\ mpc = "send_go"
    /\ SetD(usb_endpoint_send(D, EP1R, "string", mlen))
    /\ mpc' = "poll"
    /\ mlen' = 0
    /\ Note("send", 0, 0, EP1R, mlen)
    /\ UNCHANGED <<xvars, qvars, hvars, cvars, pvars, tvars, eprOp, ISTR_RESET, pma_rx, ipc>>

(***************************************************************************)
(* Spec: the control endpoint.  The host sends SETUP and OUT packets,      *)
(* reads the armed packets and resets the bus; the interrupt handler       *)
(* answers; the main context leaves enum_wait.                             *)
(***************************************************************************)
Init == cq_init /\ HistInit /\ ConsumerIdle /\ DriverInit

Next ==
    \/ HostSetup
    \/ HostOut0
    \/ HostIn
    \/ HostReset
    \/ Irq
    \/ Ctr0Tx
    \/ EnumWaitOver

Spec == Init /\ [][Next]_vars

(***************************************************************************)
(* SpecSend: the poll loop prints strings on endpoint 1 of the enumerated  *)
(* device.                                                                 *)
(***************************************************************************)
\* the driver after the control transfer that starts with the SETUP packet
\* pkt and has no data stage: the packet is received, ctr0 handles it, the
\* host reads the status packet, ctr0 handles the end of the transmission
ControlTransfer(d, pkt) ==
    CHOOSE r \in
        {ctr0_tx(c) : c \in
            {[b EXCEPT !.EPR[EP0R] = HwTxDone(@)] : b \in
                {ctr0_tx(ctr0_rx(a, pkt).d) : a \in
                    {[d EXCEPT !.EPR[EP0R] = HwRxDone(@, TRUE),
                               !.rx_count[EP0R] = 8]}}}} : TRUE

\* the driver in the poll loop of init_terminal once the host has set the
\* address and the configuration and enabled the UART
Enumerated ==
    CHOOSE r \in
        {SetFlag(endpoint_recv_ready(d, EP1R), EP1R, F_RX_BUSY) : d \in
            {ControlTransfer(
                 ControlTransfer(ControlTransfer(Boot, SetAddressPkt(1)),
                                 SetConfigurationPkt),
                 VendorPkt(0, 1))}} : TRUE

SendInit ==
    /\ cq_init /\ HistInit /\ ConsumerIdle /\ HandlerIdle /\ tmo = 0
    /\ \E e \in {Enumerated} :
           /\ EPR = e.EPR
           /\ DADDR = e.DADDR
           /\ tx_count = e.tx_count
           /\ rx_count = e.rx_count
           /\ pma_tx = e.pma_tx
           /\ flags = e.flags
           /\ pending_address = e.pending_address
           /\ tx_rem = e.tx_rem
           /\ tx_rem_count = e.tx_rem_count
           /\ usb_current_state = e.usb_current_state
           /\ uart_current_state = e.uart_current_state
           /\ usb_inital_prompt_pending = e.usb_inital_prompt_pending
           /\ cp21_control = e.cp21_control
           /\ halted = e.halted
    /\ ISTR_RESET = FALSE
    /\ pma_rx = [ep \in Eps |-> IF ep = EP0R THEN VendorPkt(0, 1) ELSE <<>>]
    /\ ipc = "none"
    /\ mpc = "poll"
    /\ mlen = 0
    /\ last = NoStep
    /\ HostIdle
    /\ ShellIdle
    /\ eprOp = [op |-> "none", ep |-> 0, before |-> 0, val |-> 0]

SendNext ==
    \/ EndpointSendCall
    \/ EndpointSendWait
    \/ EndpointSendGo
    \/ HostIn
    \/ HostReset
    \/ Irq

SpecSend == SendInit /\ [][SendNext]_vars

(***************************************************************************)
(* SpecDesc: the host reads the descriptors of the device on endpoint 0.   *)
(***************************************************************************)
\* D_DESC, D_CONFIG, D_STRING, D_QUAL of usb_enum.c
D_DESC == 1
D_CONFIG == 2
D_STRING == 3
D_QUAL == 6

\* the GET_DESCRIPTOR requests of the host: the configuration descriptor with
\* every length up to MaxDescLen, the device descriptor, the device
\* qualifier and the strings 0..3
DescSetups ==
    {GetDescriptorPkt(D_CONFIG, 0, n) : n \in 0..MaxDescLen}
    \cup {GetDescriptorPkt(D_DESC, 0, n) : n \in {8, DeviceDescLen}}
    \cup {GetDescriptorPkt(D_QUAL, 0, 10)}
    \cup {GetDescriptorPkt(D_STRING, i, 255) : i \in 0..3}

HostGetDescriptor ==
    \E pkt \in DescSetups :
        /\ Enabled
        /\ ~CtrRx(EPR[EP0R])
        /\ StatRx(EPR[EP0R]) # DISABLED_ST
        /\ EPR' = [EPR EXCEPT ![EP0R] = HwRxDone(@, TRUE)]
        /\ rx_count' = [rx_count EXCEPT ![EP0R] = 8]
        /\ pma_rx' = [pma_rx EXCEPT ![EP0R] = pkt]
        /\ last' = NoStep
        /\ UNCHANGED <<xvars, qvars, hvars, cvars, pvars, tvars, eprOp, DADDR, ISTR_RESET, tx_count, pma_tx,
                       flags, pending_address, tx_rem, tx_rem_count, usb_current_state,
                       uart_current_state, usb_inital_prompt_pending, cp21_control,
                       halted, ipc, mpc, mlen>>

DescNext ==
    \/ HostGetDescriptor
    \/ HostOut0
    \/ HostIn
    \/ Irq
    \/ Ctr0Tx

SpecDesc == Init /\ [][DescNext]_vars

(***************************************************************************)
(* SpecPrompt: the host opens the port of the configured device (the       *)
(* CP210x enable request with value 1, then the modem-control request with *)
(* DTR set) and the poll loop prints the initial prompt.                   *)
(***************************************************************************)
\* the variables of the driver hold the record e
DriverAt(e) ==
    /\ EPR = e.EPR
    /\ DADDR = e.DADDR
    /\ tx_count = e.tx_count
    /\ rx_count = e.rx_count
    /\ pma_tx = e.pma_tx
    /\ flags = e.flags
    /\ pending_address = e.pending_address
    /\ tx_rem = e.tx_rem
    /\ tx_rem_count = e.tx_rem_count
    /\ usb_current_state = e.usb_current_state
    /\ uart_current_state = e.uart_current_state
    /\ usb_inital_prompt_pending = e.usb_inital_prompt_pending
    /\ cp21_control = e.cp21_control
    /\ halted = e.halted

\* the driver in the poll loop of init_terminal once the host has set the
\* address and the configuration
ConfiguredOnly ==
    CHOOSE r \in
        {SetFlag(endpoint_recv_ready(d, EP1R), EP1R, F_RX_BUSY) : d \in
            {ControlTransfer(ControlTransfer(Boot, SetAddressPkt(1)),
                             SetConfigurationPkt)}} : TRUE

\* strlen of what print_and_clear_buffer builds for the initial prompt:
\* "\n\r", "* Base - version " VERSION " *\n\rType help for available
\* commands.", "\n\r" and "# "
PromptLens == {2 + (17 + v + 4 + 33) + 2 + 2 : v \in 1..MaxVersionLen}

\* SET_MDMCTL with the DTR bit
SetModemPkt(value) == VendorPkt(7, value)

PromptInit ==
    /\ cq_init /\ HistInit /\ ConsumerIdle /\ ShellIdle /\ HandlerIdle /\ tmo = 0
    /\ \E e \in {ConfiguredOnly} : DriverAt(e)
    /\ ISTR_RESET = FALSE
    /\ pma_rx = [ep \in Eps |-> IF ep = EP0R THEN SetConfigurationPkt ELSE <<>>]
    /\ ipc = "none"
    /\ mpc = "poll"
    /\ mlen = 0
    /\ last = NoStep
    /\ eprOp = [op |-> "none", ep |-> 0, before |-> 0, val |-> 0]
    /\ hpc = "enable"
    /\ prompts = 0

\* the host sends the SETUP packet pkt and moves on to next
HostOpenStep(at, pkt, next) ==
    /\ hpc = at
    /\ Enabled
    /\ ~CtrRx(EPR[EP0R])
    /\ StatRx(EPR[EP0R]) # DISABLED_ST
    /\ EPR' = [EPR EXCEPT ![EP0R] = HwRxDone(@, TRUE)]
    /\ rx_count' = [rx_count EXCEPT ![EP0R] = 8]
    /\ pma_rx' = [pma_rx EXCEPT ![EP0R] = pkt]
    /\ last' = NoStep
    /\ hpc' = next
    /\ UNCHANGED <<xvars, qvars, hvars, cvars, tvars, eprOp, DADDR, ISTR_RESET, tx_count, pma_tx,
                   flags, pending_address, tx_rem, tx_rem_count, usb_current_state,
                   uart_current_state, usb_inital_prompt_pending, cp21_control,
                   halted, ipc, mpc, mlen, prompts>>

HostEnable == HostOpenStep("enable", VendorPkt(0, 1), "modem")

HostSetModem == HostOpenStep("modem", SetModemPkt(1), "open")

\* init_terminal: if (usb_inital_prompt_pending && usb_current_state ==
\* CONFIGURED && uart_current_state == ENABLED && !(flags & F_TX_BUSY)), and
\* builtins_terminal_init_prompt up to the call of endpoint_send
PollPrompt ==
    \E len \in PromptLens :
        /\ MainRuns
        /\ mpc = "poll"
        /\ usb_inital_prompt_pending # 0
        /\ usb_current_state = "CONFIGURED"
        /\ uart_current_state = "ENABLED"
        /\ ~HasFlag(D, EP1R, F_TX_BUSY)
        /\ mpc' = "prompt_call"
        /\ mlen' = len
        /\ last' = NoStep
        /\ UNCHANGED <<xvars, qvars, hvars, cvars, pvars, tvars, evars, DADDR, ISTR_RESET,
                       tx_count, rx_count, pma_tx, pma_rx, flags, pending_address,
                       tx_rem, tx_rem_count, usb_current_state, uart_current_state,
                       usb_inital_prompt_pending, cp21_control, halted, ipc>>

\* endpoint_send called for the prompt: its two guards
PromptSendCall ==
    /\ MainRuns
    /\ mpc = "prompt_call"
    /\ mpc' = IF usb_current_state # "CONFIGURED" \/ uart_current_state # "ENABLED"
              THEN "prompt_done" ELSE "prompt_wait"
    /\ last' = NoStep
    /\ UNCHANGED <<xvars, qvars, hvars, cvars, pvars, tvars, evars, DADDR, ISTR_RESET,
                   tx_count, rx_count, pma_tx, pma_rx, flags, pending_address,
                   tx_rem, tx_rem_count, usb_current_state, uart_current_state,
                   usb_inital_prompt_pending, cp21_control, halted, ipc, mlen>>

\* endpoint_send: while (flags & F_TX_BUSY) ; flags |= F_TX_BUSY
PromptSendWait ==
    /\ MainRuns
    /\ mpc = "prompt_wait"
    /\ ~HasFlag(D, EP1R, F_TX_BUSY)
    /\ SetD(SetFlag(D, EP1R, F_TX_BUSY))
    /\ mpc' = "prompt_go"
    /\ last' = NoStep
    /\ UNCHANGED <<xvars, qvars, hvars, cvars, pvars, tvars, eprOp, ISTR_RESET, pma_rx, ipc, mlen>>

\* endpoint_send: usb_endpoint_send(ep, buf, count) with the prompt
PromptSendGo ==
    /\ MainRuns
    /\ mpc = "prompt_go"
    /\ SetD(usb_endpoint_send(D, EP1R, "terminal_buffer", mlen))
    /\ prompts' = prompts + 1
    /\ mpc' = "prompt_done"
    /\ Note("prompt", 0, 0, EP1R, mlen)
    /\ UNCHANGED <<xvars, qvars, hvars, cvars, tvars, eprOp, ISTR_RESET, pma_rx, ipc, mlen, hpc>>

\* the return to the poll loop that leaves usb_inital_prompt_pending set
PromptDoneKeepsFlag ==
    /\ MainRuns
    /\ mpc = "prompt_done"
    /\ terminal_buffer' = [i \in 0..(TERMINAL_MAX_CHAR_LENGTH - 1) |-> 0]
    /\ terminal_buffer_index' = 0
    /\ mpc' = "poll"
    /\ mlen' = 0
    /\ last' = NoStep
    /\ UNCHANGED <<xvars, qvars, hvars, cvars, pvars, evars, dispatched, DADDR, ISTR_RESET,
                   tx_count, rx_count, pma_tx, pma_rx, flags, pending_address,
                   tx_rem, tx_rem_count, usb_current_state, uart_current_state,
                   usb_inital_prompt_pending, cp21_control, halted, ipc>>

\* print_and_clear_buffer clears the line buffer and returns;
\* init_terminal: usb_inital_prompt_pending = 0
PromptDone ==
    /\ MainRuns
    /\ mpc = "prompt_done"
    /\ usb_inital_prompt_pending' = 0
    /\ terminal_buffer' = [i \in 0..(TERMINAL_MAX_CHAR_LENGTH - 1) |-> 0]
    /\ terminal_buffer_index' = 0
    /\ mpc' = "poll"
    /\ mlen' = 0
    /\ last' = NoStep
    /\ UNCHANGED <<xvars, qvars, hvars, cvars, pvars, evars, dispatched, DADDR, ISTR_RESET,
                   tx_count, rx_count, pma_tx, pma_rx, flags, pending_address,
                   tx_rem, tx_rem_count, usb_current_state, uart_current_state,
                   cp21_control, halted, ipc>>

PromptNext ==
    \/ HostEnable
    \/ HostSetModem
    \/ HostIn
    \/ Irq
    \/ Ctr0Tx
    \/ PollPrompt
    \/ PromptSendCall
    \/ PromptSendWait
    \/ PromptSendGo
    \/ PromptDone

\* the poll loop runs for ever, a requested interrupt is served, and the host
\* goes on with the transfers the device accepts
SpecPrompt == PromptInit /\ [][PromptNext]_vars /\ WF_vars(PromptNext)

(***************************************************************************)
(* SpecRecv: the host writes bulk-OUT packets to endpoint 1 of the         *)
(* enumerated device; data_ctr queues them and the poll loop takes them    *)
(* out, one memory access of endpoint_recv and cq_remove at a time.        *)
(***************************************************************************)
\* a bulk OUT packet arrives on endpoint 1
HostOut1 ==
    \E pkt \in Packets :
        /\ Enabled
        /\ StatRx(EPR[EP1R]) = VALID_ST
        /\ Len(added) + Len(pkt) <= MaxAdds
        /\ EPR' = [EPR EXCEPT ![EP1R] = HwRxDone(@, FALSE)]
        /\ rx_count' = [rx_count EXCEPT ![EP1R] = Len(pkt)]
        /\ pma_rx' = [pma_rx EXCEPT ![EP1R] = pkt]
        /\ last' = NoStep
        /\ UNCHANGED <<xvars, qvars, hvars, cvars, pvars, tvars, eprOp, DADDR, ISTR_RESET,
                       tx_count, pma_tx, flags, pending_address, tx_rem, tx_rem_count,
                       usb_current_state, uart_current_state,
                       usb_inital_prompt_pending, cp21_control, halted, ipc, mpc, mlen>>

RecvNext ==
    \/ HostOut1
    \/ Irq
    \/ PollCheck
    \/ RecvWait
    \/ RecvCount
    \/ RecvLoop
    \/ RmCheck
    \/ RmRead
    \/ RmWrap
    \/ RmLoad
    \/ RmStore

SpecRecv == SendInit /\ [][RecvNext]_vars

Max0(a) == IF a > 0 THEN a ELSE 0

Min(a, b) == IF a < b THEN a ELSE b

IsPrefix(s, t) == Len(s) <= Len(t) /\ s = SubSeq(t, 1, Len(s))

\* C1: after any sequence of cq_add and cq_remove calls from cq_init, count is
\* the number of cq_add calls minus the number of successful cq_remove calls
\* minus the toss counter, and it lies in 0..capacity.
C1_CountAccounting ==
    /\ count = Len(added) - Len(removed) - toss
    /\ 0 <= count
    /\ count <= QSize

\* bytes were dropped, bytes were popped and bytes are still queued
C1_Witness == toss > 0 /\ Len(removed) > 0 /\ count > 0

\* C3: the bytes popped so far are, in push order, the first of the bytes the
\* queue accepted, and the unread bytes are the rest of them in push order;
\* so pushing b0..b(n-1) into free space and popping returns what was queued
\* before followed by b0..b(n-1), also after the cursors have wrapped.
C3_FifoRoundTrip ==
    /\ IsPrefix(removed, accepted)
    /\ Contents = SubSeq(accepted, Len(removed) + 1, Len(accepted))
    /\ (toss = 0 => accepted = added)

\* more bytes than the capacity went through the queue (both cursors wrapped)
\* and every one of them came out
C3_Witness ==
    /\ Len(removed) > QSize
    /\ removed = added
    /\ \E i, j \in 1..Len(removed) : removed[i] # removed[j]

\* C4: capacity + k pushes from an empty queue with no pops leave
\* count = capacity and toss = k with the first capacity bytes unread in the
\* buffer, and pops that follow return those first bytes, never the last k.
C4_Overflow ==
    /\ (removed = <<>> /\ Len(added) >= QSize) =>
            /\ count = QSize
            /\ toss = Len(added) - QSize
            /\ Contents = SubSeq(added, 1, QSize)
    /\ (~mixed) => IsPrefix(removed, SubSeq(added, 1, Min(QSize, Len(added))))

\* capacity + 2 pushes, then the whole queue popped
C4_Witness ==
    /\ ~mixed
    /\ Len(added) = QSize + 2
    /\ toss = 2
    /\ Len(removed) = QSize
    /\ added[QSize + 1] # added[1]

\* C2: with the receive interrupt preempting the poll loop between any two
\* memory accesses of endpoint_recv and cq_remove, whenever the poll loop is
\* outside endpoint_recv count is the number of bytes written and not yet
\* read, and the bytes read followed by the unread bytes are the bytes
\* written, in order (none lost, none twice).
C2_ConsistentUnderPreemption ==
    cpc = "idle" =>
        /\ count = Len(added) - Len(removed)
        /\ removed \o Contents = added

\* C5: whatever the 2-bit status was, endpoint_set_tx_valid leaves the TX
\* status VALID, endpoint_set_tx_nak leaves it NAK and endpoint_set_rx_ready
\* leaves the RX status VALID: the status bits each one writes are the
\* current status XOR the target.
C5_StatusToggle ==
    LET r == EPR[eprOp.ep] IN
    /\ eprOp.op = "set_tx_valid" =>
            /\ StatTx(r) = VALID_ST
            /\ StatTx(eprOp.val) = StatTx(Xor(eprOp.before, USB_EP0R_STAT_TX))
    /\ eprOp.op = "set_tx_nak" =>
            /\ StatTx(r) = NAK_ST
            /\ StatTx(eprOp.val) = StatTx(Xor(eprOp.before, USB_EP0R_STAT_TX_1))
    /\ eprOp.op = "set_rx_ready" =>
            /\ StatRx(r) = VALID_ST
            /\ StatRx(eprOp.val) = StatRx(Xor(eprOp.before, USB_EP0R_STAT_RX))

\* endpoint_set_tx_nak was called on a register whose TX status was STALL
C5_Witness ==
    /\ eprOp.op = "set_tx_nak"
    /\ StatTx(eprOp.before) = STALL_ST
    /\ StatTx(EPR[eprOp.ep]) = NAK_ST

\* C6: endpoint_stall leaves the TX status STALL whatever it was before.
C6_StallForcesStall ==
    eprOp.op = "stall" => StatTx(EPR[eprOp.ep]) = STALL_ST

(***************************************************************************)
(* C7: SET_ADDRESS is deferred.  When ctr0 has handled a SET_ADDRESS SETUP *)
(* for an address a in 1..127, a zero-length packet is armed on endpoint 0 *)
(* (transmit count 0, transmit status VALID), the address register is what *)
(* it was, and a is pending.  The register takes an address other than 0   *)
(* only in the step of ctr0 that handles a transmit-complete flag of       *)
(* endpoint 0 while an address is pending: it becomes the enable bit plus  *)
(* the pending address, and the pending address is cleared.                *)
(***************************************************************************)
C7_SetAddressDeferred ==
    /\ [](last.what = "setup" /\ last.tag = 5 /\ last.value \in 1..127
            => /\ tx_count[EP0R] = 0
               /\ StatTx(EPR[EP0R]) = VALID_ST
               /\ DADDR = last.daddr
               /\ pending_address = last.value)
    /\ [](last.what = "tx0" /\ last.pend # 0
            => /\ DADDR = USB_DADDR_EF + last.pend
               /\ pending_address = 0)
    /\ [][DADDR' # DADDR /\ DADDR' > USB_DADDR_EF
            => /\ last'.what = "tx0"
               /\ pending_address # 0
               /\ DADDR' = USB_DADDR_EF + pending_address
               /\ pending_address' = 0]_vars

\* ctr0 has written the pending address 127 into the address register
C7_Witness ==
    /\ last.what = "tx0"
    /\ last.pend = 127
    /\ last.daddr = USB_DADDR_EF
    /\ DADDR = USB_DADDR_EF + 127
    /\ pending_address = 0

(***************************************************************************)
(* C8: when usb_setup parses a SETUP packet, no address set by an earlier  *)
(* SET_ADDRESS is still waiting to be written to the address register.     *)
(***************************************************************************)
C8_AddressWrittenBeforeNextSetup ==
    last.what = "setup" => last.pend = 0

(***************************************************************************)
(* C9: usb_endpoint_send of more than 64 bytes programs a first transfer   *)
(* of the first 64 bytes and records the rest, from offset 64, as the      *)
(* continuation, with the continuation flag set; the continuation is in    *)
(* the transmit buffer only after a step that handled the transmit-        *)
(* complete flag of the endpoint; and that step, taken with the            *)
(* continuation flag set, arms the continuation and clears the flag.       *)
(***************************************************************************)
C9_Fragmentation ==
    /\ (last.what = "send" /\ last.len > ENDPOINT_LIMIT
          => /\ tx_count[last.ep] = ENDPOINT_LIMIT
             /\ pma_tx[last.ep] = Slice("string", 0, ENDPOINT_LIMIT)
             /\ tx_rem = [buf |-> "string", off |-> ENDPOINT_LIMIT]
             /\ tx_rem_count = last.len - ENDPOINT_LIMIT
             /\ HasFlag(D, last.ep, F_TX_REM))
    /\ \A ep \in Eps :
          pma_tx[ep].off = ENDPOINT_LIMIT
            => last.what \in {"tx0", "data_tx", "none"} /\ ~HasFlag(D, ep, F_TX_REM)
    /\ (last.what \in {"tx0", "data_tx"} /\ last.rem /\ last.pend = 0
          => /\ ~HasFlag(D, last.ep, F_TX_REM)
             /\ tx_count[last.ep] = tx_rem_count
             /\ pma_tx[last.ep] = Slice(tx_rem.buf, tx_rem.off, tx_rem_count)
             /\ StatTx(EPR[last.ep]) = VALID_ST)

(***************************************************************************)
(* C10: when data_ctr has handled the transmit-complete flag of endpoint 1 *)
(* with a continuation pending, the continuation flag is clear and the     *)
(* remaining bytes are armed for transmission.                             *)
(***************************************************************************)
C10_BulkContinuationSent ==
    last.what = "data_tx" /\ last.ep = EP1R /\ last.rem
      => /\ ~HasFlag(D, EP1R, F_TX_REM)
         /\ tx_count[EP1R] = tx_rem_count
         /\ StatTx(EPR[EP1R]) = VALID_ST

(***************************************************************************)
(* C11: when ctr0 has handled GET_DESCRIPTOR for the configuration         *)
(* descriptor with requested length N, endpoint 0 is armed with            *)
(* min(N, sizeof(my_config_desc)) bytes, the first bytes of                *)
(* my_config_desc, and never with more than N bytes.                       *)
(***************************************************************************)
C11_ConfigDescriptorClamped ==
    last.what = "setup" /\ last.tag = 32774 /\ last.value \div 256 = D_CONFIG
      => LET N == SetupOf(pma_rx[EP0R]).length IN
         /\ tx_count[EP0R] = Min(N, ConfigDescLen)
         /\ tx_count[EP0R] <= N
         /\ pma_tx[EP0R] = Slice("my_config_desc", 0, Min(N, ConfigDescLen))
         /\ StatTx(EPR[EP0R]) = VALID_ST

\* a request for fewer bytes than the descriptor has was answered
C11_Witness ==
    /\ last.what = "setup" /\ last.tag = 32774 /\ last.value \div 256 = D_CONFIG
    /\ SetupOf(pma_rx[EP0R]).length = 9
    /\ tx_count[EP0R] = 9
    /\ pma_tx[EP0R] = Slice("my_config_desc", 0, 9)

(***************************************************************************)
(* C12: after the enable request with value 1 and the modem-control        *)
(* request with DTR set, sent to the configured device, the initial prompt *)
(* is handed to usb_endpoint_send on endpoint 1 exactly once: never twice, *)
(* not before the DTR request was handled, only with the device            *)
(* Configured, the UART Enabled and F_TX_BUSY taken, with the pending flag *)
(* cleared afterwards, and it is handed eventually.                        *)
(***************************************************************************)
C12_PromptOnce ==
    /\ [](/\ prompts <= 1
          /\ (prompts = 1 => hpc = "open")
          /\ (last.what = "prompt"
                => /\ usb_current_state = "CONFIGURED"
                   /\ uart_current_state = "ENABLED"
                   /\ usb_inital_prompt_pending = 1
                   /\ HasFlag(D, EP1R, F_TX_BUSY)
                   /\ last.ep = EP1R
                   /\ tx_count[EP1R] = Min(mlen, ENDPOINT_LIMIT))
          /\ (prompts = 1 /\ mpc = "poll" => usb_inital_prompt_pending = 0))
    /\ <>[](prompts = 1 /\ usb_inital_prompt_pending = 0)

\* the prompt was printed and the flag cleared
C12_Witness ==
    /\ prompts = 1
    /\ hpc = "open"
    /\ mpc = "poll"
    /\ usb_inital_prompt_pending = 0
    /\ StatTx(EPR[EP1R]) = VALID_ST

(***************************************************************************)
(* C13: when the interrupt handler has handled a bus reset, the device     *)
(* state is Initialized.                                                   *)
(***************************************************************************)
C13_ResetInitializes ==
    last.what = "reset" => usb_current_state = "INIT"

(***************************************************************************)
(* C14: the flags of an endpoint change only in a step of the interrupt    *)
(* handler, and they are all clear for both endpoints when the handler has *)
(* handled a reset.                                                        *)
(***************************************************************************)
C14_FlagsInInterruptOnly ==
    [][/\ (flags' # flags => last'.what \notin {"none", "send", "prompt", "refused"})
       /\ (last'.what = "reset" => flags' = [ep \in Eps |-> 0])]_vars

(***************************************************************************)
(* C15: when data_ctr delivers a packet to the full queue, the bytes are   *)
(* discarded, toss grows (by one for each byte) and the queue is left as   *)
(* it was.                                                                 *)
(***************************************************************************)
C15_OverflowCounted ==
    [][Irq /\ last'.what = "data_rx" /\ count = QSize
         => /\ toss' = toss + Len(pma_rx[EP1R])
            /\ qbuf' = qbuf /\ ip' = ip /\ op' = op /\ count' = count]_vars

(***************************************************************************)
(* SpecEcho: a configured device whose emulated UART the host switches on  *)
(* and off while the poll loop prints.                                     *)
(***************************************************************************)
EchoInit ==
    /\ cq_init /\ HistInit /\ ConsumerIdle /\ ShellIdle /\ HostIdle /\ HandlerIdle /\ tmo = 0
    /\ \E e \in {ConfiguredOnly} : DriverAt(e)
    /\ ISTR_RESET = FALSE
    /\ pma_rx = [ep \in Eps |-> IF ep = EP0R THEN SetConfigurationPkt ELSE <<>>]
    /\ ipc = "none"
    /\ mpc = "poll"
    /\ mlen = 0
    /\ last = NoStep
    /\ eprOp = [op |-> "none", ep |-> 0, before |-> 0, val |-> 0]

\* the host opens (IFC_ENABLE 1) or closes (IFC_ENABLE 0) the port
HostUart == \E v \in {0, 1} : HostOpenStep("none", VendorPkt(0, v), "none")

EchoNext ==
    \/ HostUart
    \/ HostIn
    \/ Irq
    \/ Ctr0Tx
    \/ EndpointSendCall
    \/ EndpointSendWait
    \/ EndpointSendGo

SpecEcho == EchoInit /\ [][EchoNext]_vars

\* C16: a bulk send called while the device is not Configured or the UART
\* is not Enabled returns to the poll loop at once (it does not enter the
\* busy-wait, whatever the transmit-busy flag says), and leaves the
\* endpoint flags, the transmit counts, the packet memory, the endpoint
\* registers and the continuation state as they were.
C16_RefusedSendNoOp ==
    [][EndpointSendCall
         /\ (usb_current_state # "CONFIGURED" \/ uart_current_state # "ENABLED")
         => /\ mpc' = "poll"
            /\ last'.what = "refused"
            /\ flags' = flags
            /\ tx_count' = tx_count
            /\ pma_tx' = pma_tx
            /\ EPR' = EPR
            /\ tx_rem' = tx_rem
            /\ tx_rem_count' = tx_rem_count]_vars

\* a send was refused with the UART closed while the previous transmit of
\* endpoint 1 was still outstanding
C16_Witness ==
    /\ last.what = "refused"
    /\ usb_current_state = "CONFIGURED"
    /\ uart_current_state = "DISABLED"
    /\ HasFlag(D, EP1R, F_TX_BUSY)
    /\ StatTx(EPR[EP1R]) = VALID_ST
    /\ mpc = "poll"

(***************************************************************************)
(* SpecShell: the poll loop hands the bytes of a typed line to the shell   *)
(* of terminal.c.  The UART stays closed, so what the shell prints is      *)
(* refused by endpoint_send and the driver is left alone.                  *)
(***************************************************************************)
MaxArgs == 3

\* T_SPACE of builtins.h
T_SPACE == 32

\* "help", "echo", "ls" and the arguments "hi", "a" in ASCII
HelpWord == <<104, 101, 108, 112>>
EchoWord == <<101, 99, 104, 111>>
Programs == {HelpWord, EchoWord, <<108, 115>>}
ArgWords == {<<104, 105>>, <<97>>}

RECURSIVE WithArgs(_, _)
WithArgs(line, n) ==
    IF n = 0 THEN {line}
    ELSE {line} \cup UNION {WithArgs(line \o <<T_SPACE>> \o w, n - 1) : w \in ArgWords}

\* the lines typed: a program name and up to MaxArgs arguments, one space
\* between two words
Lines == UNION {WithArgs(p, MaxArgs) : p \in Programs}

\* the first terminal_buffer_index characters of the line buffer
Typed == [k \in 1..terminal_buffer_index |-> terminal_buffer[k - 1]]

ZeroArray == [i \in 0..(TERMINAL_MAX_CHAR_LENGTH - 1) |-> 0]

\* an array of char read as a C string
RECURSIVE CStrFrom(_, _)
CStrFrom(a, i) ==
    IF i >= TERMINAL_MAX_CHAR_LENGTH \/ a[i] = 0 THEN <<>>
    ELSE <<a[i]>> \o CStrFrom(a, i + 1)

CStr(a) == CStrFrom(a, 0)

\* builtins_terminal_process_return, "get the program": the loop from
\* (index, i) on; gives index and program[] at its exit
RECURSIVE ProgramLoop(_, _, _, _, _)
ProgramLoop(buf, n, index, i, program) ==
    IF ~(index < n) THEN [index |-> index, program |-> program]
    ELSE IF buf[index] = 0 THEN [index |-> index, program |-> program]
    ELSE IF buf[index] = T_SPACE THEN [index |-> index + 1, program |-> program]
    ELSE ProgramLoop(buf, n, index + 1, i + 1, [program EXCEPT ![i] = buf[index]])

\* builtins_terminal_process_return, "get the args": the loop from
\* (index, i, arg_index) on; a space ends the loop
RECURSIVE ArgsLoop(_, _, _, _, _, _)
ArgsLoop(buf, n, index, i, arg_index, argv) ==
    IF ~(index < n) THEN argv
    ELSE IF buf[index] = 0 \/ arg_index >= TERMINAL_MAX_ARG_COUNT THEN argv
    ELSE IF buf[index] = T_SPACE THEN argv
    ELSE ArgsLoop(buf, n, index + 1, i + 1, arg_index,
                  [argv EXCEPT ![arg_index + 1][i] = buf[index]])

\* what builtins_terminal_process_return makes of the line buffer: the
\* command it calls, with program and argv as C strings
process_return(buf, n) ==
    CHOOSE r \in
        {[cmd |-> IF CStr(pl.program) = HelpWord THEN "help"
                  ELSE IF CStr(pl.program) = EchoWord THEN "echo"
                  ELSE "not_found",
          line |-> [k \in 1..n |-> buf[k - 1]],
          program |-> CStr(pl.program),
          argv |-> [k \in 1..TERMINAL_MAX_ARG_COUNT |->
                      CStr(ArgsLoop(buf, n, pl.index, 0, 0,
                                    <<ZeroArray, ZeroArray, ZeroArray>>)[k])]] :
            pl \in {ProgramLoop(buf, n, 0, 0, ZeroArray)}} : TRUE

ShellInit == EchoInit

\* the characters of the lines
ShellChars == UNION {{l[k] : k \in 1..Len(l)} : l \in Lines}

\* the poll loop read a byte that is neither backspace nor return:
\* builtins_terminal_add_to_buffer(c); the echo of the byte is refused
ShellType ==
    \E c \in ShellChars :
        /\ MainRuns
        /\ mpc = "poll"
        /\ \E l \in Lines : IsPrefix(Typed \o <<c>>, l)
        /\ IF terminal_buffer_index < TERMINAL_MAX_CHAR_LENGTH
           THEN /\ terminal_buffer' = [terminal_buffer EXCEPT ![terminal_buffer_index] = c]
                /\ terminal_buffer_index' = terminal_buffer_index + 1
           ELSE UNCHANGED <<terminal_buffer, terminal_buffer_index>>
        /\ last' = NoStep
        /\ UNCHANGED <<xvars, qvars, hvars, cvars, pvars, evars, dispatched, DADDR, ISTR_RESET,
                       tx_count, rx_count, pma_tx, pma_rx, flags, pending_address,
                       tx_rem, tx_rem_count, usb_current_state, uart_current_state,
                       usb_inital_prompt_pending, cp21_control, halted, ipc, mpc, mlen>>

\* the poll loop read a carriage return: builtins_terminal_process_return.
\* With characters in the buffer the line is split and the command called;
\* builtins_help and builtins_echo answer through
\* builtins_terminal_print_line, "Command not found" and the empty line go
\* to print_and_clear_buffer directly: the buffer is zeroed, the print is
\* refused
ShellReturn ==
    /\ MainRuns
    /\ mpc = "poll"
    /\ dispatched' = IF terminal_buffer_index > 0
                     THEN process_return(terminal_buffer, terminal_buffer_index)
                     ELSE dispatched
    /\ terminal_buffer' = ZeroArray
    /\ terminal_buffer_index' = 0
    /\ last' = NoStep
    /\ UNCHANGED <<xvars, qvars, hvars, cvars, pvars, evars, DADDR, ISTR_RESET,
                   tx_count, rx_count, pma_tx, pma_rx, flags, pending_address,
                   tx_rem, tx_rem_count, usb_current_state, uart_current_state,
                   usb_inital_prompt_pending, cp21_control, halted, ipc, mpc, mlen>>

ShellNext == ShellType \/ ShellReturn

SpecShell == ShellInit /\ [][ShellNext]_vars

\* the words of a line: what stands between its spaces
RECURSIVE Split(_, _)
Split(line, word) ==
    IF line = <<>> THEN <<word>>
    ELSE IF Head(line) = T_SPACE THEN <<word>> \o Split(Tail(line), <<>>)
    ELSE Split(Tail(line), Append(word, Head(line)))

\* C17: the command dispatched on carriage return is the one named by the
\* first word of the line ("help", "echo", else command not found), and its
\* first, second and third argument are the second, third and fourth word
\* of the line, the empty string where the line has no such word.
C17_ArgumentsInOrder ==
    dispatched.cmd # "none" =>
        \E w \in {Split(dispatched.line, <<>>)} :
            /\ dispatched.program = w[1]
            /\ dispatched.cmd = IF w[1] = HelpWord THEN "help"
                                ELSE IF w[1] = EchoWord THEN "echo"
                                ELSE "not_found"
            /\ \A k \in 1..TERMINAL_MAX_ARG_COUNT :
                 dispatched.argv[k] = IF k + 1 <= Len(w) THEN w[k + 1] ELSE <<>>

\* the data-toggle bits of a register
Dtog(r) == And(r, USB_EP0R_DTOG_RX + USB_EP0R_DTOG_TX)

\* the type, kind, address and SETUP bits of a register
EpFixed(r) ==
    And(r, USB_EP0R_EP_TYPE + USB_EP0R_EP_KIND + USB_EP0R_EA + USB_EP0R_SETUP)

\* C18: the register functions leave the fields they do not target as
\* they were.  endpoint_clear_rx and endpoint_clear_tx clear their own
\* transfer-complete flag and change neither the other one, the RX status,
\* the TX status nor the data toggles; endpoint_set_tx_valid and
\* endpoint_set_tx_nak change neither the RX status, the data toggles nor the
\* RX-complete flag; endpoint_set_rx_ready clears the RX-complete flag and
\* changes neither the TX status, the data toggles nor the TX-complete flag;
\* none of them changes type, kind, address or SETUP.
C18_FrameEffects ==
    \E b \in {eprOp.before} : \E r \in {EPR[eprOp.ep]} :
        /\ eprOp.op = "clear_rx" =>
              /\ ~CtrRx(r) /\ CtrTx(r) = CtrTx(b)
              /\ StatRx(r) = StatRx(b) /\ StatTx(r) = StatTx(b) /\ Dtog(r) = Dtog(b)
              /\ EpFixed(r) = EpFixed(b)
        /\ eprOp.op = "clear_tx" =>
              /\ ~CtrTx(r) /\ CtrRx(r) = CtrRx(b)
              /\ StatRx(r) = StatRx(b) /\ StatTx(r) = StatTx(b) /\ Dtog(r) = Dtog(b)
              /\ EpFixed(r) = EpFixed(b)
        /\ eprOp.op \in {"set_tx_valid", "set_tx_nak"} =>
              /\ CtrRx(r) = CtrRx(b)
              /\ StatRx(r) = StatRx(b) /\ Dtog(r) = Dtog(b)
              /\ EpFixed(r) = EpFixed(b)
        /\ eprOp.op = "set_rx_ready" =>
              /\ ~CtrRx(r) /\ CtrTx(r) = CtrTx(b)
              /\ StatTx(r) = StatTx(b) /\ Dtog(r) = Dtog(b)
              /\ EpFixed(r) = EpFixed(b)

\* endpoint_clear_rx acknowledged a reception on a register with both
\* transfer-complete flags set, both statuses VALID and both toggles set
C18_Witness ==
    /\ eprOp.op = "clear_rx"
    /\ CtrRx(eprOp.before) /\ CtrTx(eprOp.before)
    /\ StatRx(eprOp.before) = VALID_ST /\ StatTx(eprOp.before) = VALID_ST
    /\ Dtog(eprOp.before) = USB_EP0R_DTOG_RX + USB_EP0R_DTOG_TX
    /\ ~CtrRx(EPR[eprOp.ep]) /\ CtrTx(EPR[eprOp.ep])
    /\ StatRx(EPR[eprOp.ep]) = VALID_ST /\ StatTx(EPR[eprOp.ep]) = VALID_ST

\* ctr0 took a packet for an acknowledgment: it is over, endpoint 0 is
\* armed for receive, and nothing else of the driver has changed
AckOnly ==
    /\ last'.what = "ack"
    /\ ipc' = "none"
    /\ ~CtrRx(EPR'[EP0R])
    /\ StatRx(EPR'[EP0R]) = VALID_ST
    /\ StatTx(EPR'[EP0R]) = StatTx(EPR[EP0R])
    /\ tx_count' = tx_count
    /\ pma_tx' = pma_tx
    /\ flags' = flags
    /\ tx_rem' = tx_rem
    /\ tx_rem_count' = tx_rem_count
    /\ usb_current_state' = usb_current_state
    /\ uart_current_state' = uart_current_state
    /\ pending_address' = pending_address
    /\ DADDR' = DADDR
    /\ cp21_control' = cp21_control
    /\ usb_inital_prompt_pending' = usb_inital_prompt_pending

\* a packet of endpoint 0 whose byte count is 1 is taken for an
\* acknowledgment
CountOneReturns ==
    [][Irq /\ ~ISTR_RESET /\ CtrRx(EPR[EP0R]) /\ rx_count[EP0R] = 1 => AckOnly]_vars

\* C19: when the handler takes a status acknowledgment on endpoint 0 (an OUT
\* packet, not a SETUP, of length zero, or of the byte count 1 the code
\* tests for), ctr0 re-arms the endpoint for receive and returns: usb_setup
\* and usb_control do not run, no transmission is armed on endpoint 0 (TX
\* status, transmit count and packet memory are what they were), and device
\* state, UART state and pending address are unchanged.
C19_StatusAckNoOp ==
    [][(/\ Irq /\ ~ISTR_RESET /\ CtrRx(EPR[EP0R])
        /\ And(EPR[EP0R], USB_EP0R_SETUP) = 0
        /\ rx_count[EP0R] <= 1)
            => AckOnly]_vars

\* C20: on endpoint 1 the poll loop starts a transmit (writes the transmit
\* count and the packet memory and makes the TX status VALID) only while no
\* earlier transmit is outstanding (the TX status is not VALID); it leaves
\* its busy-wait only with the transmit-busy flag clear and sets the flag
\* before it arms; and the flag of endpoint 1 is cleared only by the handler
\* taking the transmit-complete of endpoint 1 or a reset.
C20_NoOverlappingTransmit ==
    [][/\ EndpointSendGo => StatTx(EPR[EP1R]) # VALID_ST
       /\ EndpointSendWait => /\ ~HasFlag(D, EP1R, F_TX_BUSY)
                              /\ And(flags'[EP1R], F_TX_BUSY) # 0
       /\ (HasFlag(D, EP1R, F_TX_BUSY) /\ And(flags'[EP1R], F_TX_BUSY) = 0)
            => Irq /\ last'.what \in {"data_tx", "reset"}]_vars

(***************************************************************************)
(* SpecFatal: the host sends what the driver takes for a protocol          *)
(* violation: OUT packets longer than the setup buffer and string          *)
(* descriptor requests with an index the device does not have.             *)
(***************************************************************************)
MaxOver == 1
MaxStringIndex == 4

FatalSetups ==
    {GetDescriptorPkt(D_STRING, i, 255) : i \in 0..MaxStringIndex}
    \cup {SetConfigurationPkt}

\* a SETUP packet of FatalSetups arrives on endpoint 0
HostFatalSetup ==
    \E pkt \in FatalSetups :
        /\ Enabled
        /\ ~CtrRx(EPR[EP0R])
        /\ StatRx(EPR[EP0R]) # DISABLED_ST
        /\ EPR' = [EPR EXCEPT ![EP0R] = HwRxDone(@, TRUE)]
        /\ rx_count' = [rx_count EXCEPT ![EP0R] = 8]
        /\ pma_rx' = [pma_rx EXCEPT ![EP0R] = pkt]
        /\ last' = NoStep
        /\ UNCHANGED <<xvars, qvars, hvars, cvars, pvars, tvars, eprOp, DADDR, ISTR_RESET, tx_count, pma_tx,
                       flags, pending_address, tx_rem, tx_rem_count, usb_current_state,
                       uart_current_state, usb_inital_prompt_pending, cp21_control,
                       halted, ipc, mpc, mlen>>

\* an OUT packet of SETUP_BUF bytes or more arrives on endpoint 0
HostLongOut0 ==
    \E n \in SETUP_BUF..(SETUP_BUF + MaxOver) :
        /\ Enabled
        /\ StatRx(EPR[EP0R]) = VALID_ST
        /\ EPR' = [EPR EXCEPT ![EP0R] = HwRxDone(@, FALSE)]
        /\ rx_count' = [rx_count EXCEPT ![EP0R] = n]
        /\ pma_rx' = [pma_rx EXCEPT ![EP0R] = [i \in 1..n |-> 0]]
        /\ last' = NoStep
        /\ UNCHANGED <<xvars, qvars, hvars, cvars, pvars, tvars, eprOp, DADDR, ISTR_RESET, tx_count, pma_tx,
                       flags, pending_address, tx_rem, tx_rem_count, usb_current_state,
                       uart_current_state, usb_inital_prompt_pending, cp21_control,
                       halted, ipc, mpc, mlen>>

FatalNext ==
    \/ HostFatalSetup
    \/ HostLongOut0
    \/ HostIn
    \/ HostReset
    \/ Irq
    \/ Ctr0Tx
    \/ EnumWaitOver

SpecFatal == Init /\ [][FatalNext]_vars

\* what the driver keeps in memory and the address register it writes
DriverMemory ==
    <<usb_current_state, uart_current_state, usb_inital_prompt_pending, cp21_control,
      pending_address, flags, tx_rem, tx_rem_count, tx_count, pma_tx, mpc, mlen, ipc>>

\* no endpoint is armed for transmit in the step
NothingArmed ==
    \A ep \in Eps : StatTx(EPR'[ep]) = VALID_ST => StatTx(EPR[ep]) = VALID_ST

\* C21: when the handler finds a receive-complete of endpoint 0 with a byte
\* count above SETUP_BUF it halts with the packet neither acknowledged nor
\* copied (the register and the count are what they were); when it finds a
\* GET_DESCRIPTOR for a string index above 3 it halts with no answer armed;
\* in both cases nothing of the driver's memory has changed, and once
\* halted no step of the handler or of the main context is taken: the
\* driver's memory stays as it is and no endpoint becomes TX VALID.
C21_ViolationsAreFatal ==
    [][/\ (Irq /\ ~ISTR_RESET /\ CtrRx(EPR[EP0R]) /\ rx_count[EP0R] > SETUP_BUF)
            => /\ halted' /\ last'.what = "panic"
               /\ EPR' = EPR /\ rx_count' = rx_count /\ DADDR' = DADDR
               /\ UNCHANGED DriverMemory
       /\ (/\ Irq /\ ~ISTR_RESET /\ CtrRx(EPR[EP0R]) /\ rx_count[EP0R] = 8
           /\ And(EPR[EP0R], USB_EP0R_SETUP) # 0
           /\ pma_rx[EP0R] \in {GetDescriptorPkt(D_STRING, i, 255) : i \in 4..MaxStringIndex})
            => /\ halted' /\ last'.what = "setup"
               /\ NothingArmed /\ DADDR' = DADDR
               /\ UNCHANGED DriverMemory
       /\ halted
            => /\ halted' /\ last'.what = "none"
               /\ NothingArmed
               /\ UNCHANGED DriverMemory]_vars

\* the firmware halted on an oversized packet that is still unacknowledged,
\* and the host has gone on (a reset of the bus)
C21_Witness ==
    /\ halted
    /\ CtrRx(EPR[EP0R])
    /\ rx_count[EP0R] = SETUP_BUF + 1
    /\ ISTR_RESET
    /\ last.what = "none"

(***************************************************************************)
(* SpecEnum: enum_wait poll by poll, while the host enumerates the device  *)
(* (SET_ADDRESS, SET_CONFIGURATION) at its own pace, or not at all.        *)
(***************************************************************************)
HostAddress == HostOpenStep("none", SetAddressPkt(1), "addressed")

HostConfigure == HostOpenStep("addressed", SetConfigurationPkt, "configured")

\* enum_wait that goes on polling after it has seen Configured
EnumPollNoBreak ==
    /\ MainRuns
    /\ mpc = "enum_wait"
    /\ tmo # 0
    /\ tmo' = tmo - 1
    /\ mpc' = "enum_wait"
    /\ Note("enum_poll", 0, 0, 0, EnumTmo - (tmo - 1))
    /\ UNCHANGED <<qvars, hvars, cvars, pvars, tvars, evars, int_count, int_first, CNTR,
                   shell_in, DADDR, ISTR_RESET, tx_count, rx_count, pma_tx, pma_rx,
                   flags, pending_address, tx_rem, tx_rem_count, usb_current_state,
                   uart_current_state, usb_inital_prompt_pending, cp21_control,
                   halted, ipc, mlen>>

\* enum_wait, one turn of while (tmo--): timer_delay_ms(10), then break if
\* usb_current_state == CONFIGURED
EnumPoll ==
    /\ MainRuns
    /\ mpc = "enum_wait"
    /\ tmo # 0
    /\ tmo' = tmo - 1
    /\ mpc' = IF usb_current_state = "CONFIGURED" THEN "enum_done" ELSE "enum_wait"
    /\ Note("enum_poll", 0, 0, 0, EnumTmo - (tmo - 1))
    /\ UNCHANGED <<qvars, hvars, cvars, pvars, tvars, evars, int_count, int_first, CNTR,
                   shell_in, DADDR, ISTR_RESET, tx_count, rx_count, pma_tx, pma_rx,
                   flags, pending_address, tx_rem, tx_rem_count, usb_current_state,
                   uart_current_state, usb_inital_prompt_pending, cp21_control,
                   halted, ipc, mlen>>

\* enum_wait, while (tmo--) finds tmo 0: the loop is left
EnumExpire ==
    /\ MainRuns
    /\ mpc = "enum_wait"
    /\ tmo = 0
    /\ tmo' = tmo - 1
    /\ mpc' = "enum_done"
    /\ Note("enum_timeout", 0, 0, 0, EnumTmo)
    /\ UNCHANGED <<qvars, hvars, cvars, pvars, tvars, evars, int_count, int_first, CNTR,
                   shell_in, DADDR, ISTR_RESET, tx_count, rx_count, pma_tx, pma_rx,
                   flags, pending_address, tx_rem, tx_rem_count, usb_current_state,
                   uart_current_state, usb_inital_prompt_pending, cp21_control,
                   halted, ipc, mlen>>

\* enum_wait returns, usb_init calls init_terminal:
\* endpoint_recv_ready(EP1R); flags |= F_RX_BUSY; and the poll loop starts
EnumDone ==
    /\ MainRuns
    /\ mpc = "enum_done"
    /\ SetD(SetFlag(endpoint_recv_ready(D, EP1R), EP1R, F_RX_BUSY))
    /\ mpc' = "poll"
    /\ Note("init_terminal", 0, 0, EP1R, EnumTmo - Max0(tmo))
    /\ UNCHANGED <<xvars, qvars, hvars, cvars, pvars, tvars, eprOp, ISTR_RESET, pma_rx, ipc, mlen>>

EnumNext ==
    \/ HostAddress
    \/ HostConfigure
    \/ HostIn
    \/ Irq
    \/ Ctr0Tx
    \/ EnumPoll
    \/ EnumExpire
    \/ EnumDone

\* the main context keeps running and interrupts are served
SpecEnum == Init /\ [][EnumNext]_vars /\ WF_vars(EnumNext)

\* C22: enum_wait polls the device state at most EnumTmo (500) times; a poll
\* that finds Configured leaves the loop, a poll that does not goes on while
\* polls are left, and with none left the loop is left without a retry;
\* enum_wait itself never changes the device state; and in every run the
\* main context reaches the poll loop of init_terminal.
C22_EnumWaitTerminates ==
    /\ [](tmo \in -1..EnumTmo)
    /\ [](last.what = "enum_poll" => last.len \in 1..EnumTmo)
    /\ [][/\ EnumPoll => /\ usb_current_state' = usb_current_state
                         /\ (usb_current_state = "CONFIGURED" => mpc' = "enum_done")
                         /\ (usb_current_state # "CONFIGURED" => mpc' = "enum_wait")
          /\ EnumExpire => /\ usb_current_state' = usb_current_state
                           /\ tmo = 0 /\ mpc' = "enum_done"
          /\ EnumDone => /\ usb_current_state' = usb_current_state
                         /\ mpc' = "poll"
          /\ mpc = "enum_wait" /\ mpc' # "enum_wait" => EnumPoll \/ EnumExpire]_vars
    /\ <>(mpc = "poll")

\* the polls ran out with the device not configured and the poll loop of
\* init_terminal was reached
C22_Witness ==
    /\ mpc = "poll"
    /\ tmo = -1
    /\ usb_current_state # "CONFIGURED"
    /\ last.what = "init_terminal"
    /\ last.len = EnumTmo

(***************************************************************************)
(* init_terminal: one pass of the poll loop over the receive queue         *)
(***************************************************************************)
\* #define T_BACKSPACE, T_RETURN of builtins.h
T_BACKSPACE == 8
T_RETURN == 13

RECURSIVE RecvBytes(_, _, _)
\* endpoint_recv: for (i = 0; i < n; i++) buf[i] = cq_remove(&in_queue);
\* the queue afterwards and the bytes stored in buf
RecvBytes(q, n, out) ==
    IF n = 0 THEN [q |-> q, buf |-> out]
    ELSE RecvBytes(cq_remove(q).q, n - 1, Append(out, cq_remove(q).ch))

\* what the poll loop does with buf[0]
ShellOp(c) ==
    IF c = T_BACKSPACE THEN "backspace"
    ELSE IF c = T_RETURN THEN "return"
    ELSE "add"

\* the poll loop finds bytes queued: count = endpoint_recv(EP1R, buf, 2),
\* and buf[0] alone goes to the shell; it is a character here, so
\* builtins_terminal_add_to_buffer(buf[0]) and endpoint_send(EP1R, buf,
\* count), which is refused while the UART is not Enabled
PollRecvShell ==
    /\ MainRuns
    /\ mpc = "poll"
    /\ cpc = "idle"
    /\ cq_count(Q) > 0
    /\ uart_current_state # "ENABLED"
    /\ \E r \in {RecvBytes(Q, Min(cq_count(Q), RecvLimit), <<>>)} :
           /\ SetQ(r.q)
           /\ removed' = removed \o r.buf
           /\ shell_in' = Append(shell_in, r.buf[1])
           /\ ShellOp(r.buf[1]) = "add"
           /\ IF terminal_buffer_index < TERMINAL_MAX_CHAR_LENGTH
              THEN /\ terminal_buffer' = [terminal_buffer EXCEPT
                                              ![terminal_buffer_index] = r.buf[1]]
                   /\ terminal_buffer_index' = terminal_buffer_index + 1
              ELSE UNCHANGED <<terminal_buffer, terminal_buffer_index>>
           /\ Note("refused", 0, 0, EP1R, Len(r.buf))
    /\ UNCHANGED <<added, mixed, accepted, cvars, pvars, evars, dispatched,
                   tmo, int_count, int_first, CNTR, DADDR, ISTR_RESET,
                   tx_count, rx_count, pma_tx, pma_rx, flags, pending_address,
                   tx_rem, tx_rem_count, usb_current_state, uart_current_state,
                   usb_inital_prompt_pending, cp21_control, halted, ipc, mpc, mlen>>

PollNext ==
    \/ HostOut1
    \/ Irq
    \/ PollRecvShell

\* the device is configured, the port is closed, the host writes to the
\* bulk endpoint and the poll loop reads
SpecPoll == EchoInit /\ [][PollNext]_vars

\* C23: every byte the poll loop removes from the receive queue is handed
\* to the shell, in the order received: the bytes handed to the shell are
\* the bytes removed, byte for byte, whatever number of bytes was queued.
C23_EveryByteToShell == shell_in = removed

(***************************************************************************)
(* SpecAddr: the host addresses the device, resets the bus and starts      *)
(* over.                                                                   *)
(***************************************************************************)
\* SET_ADDRESS is the first request after power-up or after a bus reset
HostSetAddress ==
    \E a \in Addrs : \E at \in {"none", "reset"} :
        HostOpenStep(at, SetAddressPkt(a), "addressed")

\* GET_DESCRIPTOR(device) to address 0 after a bus reset
HostDescribe == HostOpenStep("reset", GetDescriptorPkt(1, 0, 18), "reset")

\* a bus reset after the handler has taken the SET_ADDRESS request: the
\* peripheral clears the address register and the endpoint registers
\* except their transfer-complete flags, and raises RESET in ISTR
HostBusReset ==
    /\ hpc = "addressed"
    /\ ipc = "none"
    /\ ~CtrRx(EPR[EP0R])
    /\ ~ISTR_RESET
    /\ ISTR_RESET' = TRUE
    /\ DADDR' = 0
    /\ EPR' = [ep \in Eps |-> And(EPR[ep], USB_EP0R_CTR_RX + USB_EP0R_CTR_TX)]
    /\ hpc' = "reset"
    /\ last' = NoStep
    /\ UNCHANGED <<xvars, qvars, hvars, cvars, tvars, eprOp, tx_count, rx_count,
                   pma_tx, pma_rx, flags, pending_address, tx_rem, tx_rem_count,
                   usb_current_state, uart_current_state, usb_inital_prompt_pending,
                   cp21_control, halted, ipc, mpc, mlen, prompts>>

AddrNext ==
    \/ HostSetAddress
    \/ HostDescribe
    \/ HostBusReset
    \/ HostIn
    \/ Irq
    \/ Ctr0Tx

SpecAddr == Init /\ [][AddrNext]_vars

\* C24: from a bus reset until the host sends SET_ADDRESS again the address
\* in the address register is 0: an address pended by a SET_ADDRESS before
\* the reset is not applied after it.
C24_NoStaleAddress == hpc = "reset" => DADDR % 128 = 0

(***************************************************************************)
(* SpecCntr: the interrupt handler with its count of the interrupts taken  *)
(***************************************************************************)
\* USB_LP_CAN1_RX0_IRQHandler, entered while CNTR enables the interrupt:
\* if (int_first && int_count++ > 2000) { int_first = 0; USB->CNTR = 0; }
\* and then the handler
IrqCounted ==
    /\ CNTR # 0
    /\ IrqHandler
    /\ int_count' = IF int_first # 0 THEN int_count + 1 ELSE int_count
    /\ IF int_first # 0 /\ int_count > IntLimit
       THEN int_first' = 0 /\ CNTR' = 0
       ELSE UNCHANGED <<int_first, CNTR>>

CntrNext ==
    \/ HostReset
    \/ IrqCounted

\* the bus is reset again and again, each reset is an interrupt
SpecCntr == Init /\ [][CntrNext]_vars

\* C25: after any number of interrupts the control register still enables
\* the transfer-complete and the reset interrupt.
C25_EnablesStay == CNTR = USB_ISTR_CTR + USB_ISTR_RESET

(***************************************************************************)
(* SpecCtl: SET_BAUDRATE and SET_CHARS with their data stage               *)
(***************************************************************************)
\* static char cp21_baud[4]; static char cp21_chars[6];
Cp21BaudSize == 4
Cp21CharsSize == 6

\* usb_control: the memcpy it does, as destination and number of bytes
ControlCopy(ctl, cnt) ==
    IF ctl = "BAUD" THEN [to |-> "cp21_baud", n |-> cnt]
    ELSE IF ctl = "CHARS" THEN [to |-> "cp21_chars", n |-> cnt]
    ELSE [to |-> "none", n |-> 0]

\* SET_BAUDRATE (0x411e) and SET_CHARS (0x4119)
CtlSetups == {VendorPkt(30, 0), VendorPkt(25, 0)}

HostCtlSetup ==
    \E pkt \in CtlSetups :
        /\ Enabled
        /\ ~CtrRx(EPR[EP0R])
        /\ StatRx(EPR[EP0R]) # DISABLED_ST
        /\ EPR' = [EPR EXCEPT ![EP0R] = HwRxDone(@, TRUE)]
        /\ rx_count' = [rx_count EXCEPT ![EP0R] = 8]
        /\ pma_rx' = [pma_rx EXCEPT ![EP0R] = pkt]
        /\ last' = NoStep
        /\ UNCHANGED <<xvars, qvars, hvars, cvars, pvars, tvars, eprOp, DADDR, ISTR_RESET,
                       tx_count, pma_tx, flags, pending_address, tx_rem, tx_rem_count,
                       usb_current_state, uart_current_state,
                       usb_inital_prompt_pending, cp21_control, halted, ipc, mpc, mlen>>

\* the data stage: an OUT packet of a length ctr0 accepts arrives on
\* endpoint 0
HostCtlOut0 ==
    \E n \in 0..SETUP_BUF :
        /\ Enabled
        /\ StatRx(EPR[EP0R]) = VALID_ST
        /\ EPR' = [EPR EXCEPT ![EP0R] = HwRxDone(@, FALSE)]
        /\ rx_count' = [rx_count EXCEPT ![EP0R] = n]
        /\ pma_rx' = [pma_rx EXCEPT ![EP0R] = [i \in 1..n |-> 0]]
        /\ last' = NoStep
        /\ UNCHANGED <<xvars, qvars, hvars, cvars, pvars, tvars, eprOp, DADDR, ISTR_RESET,
                       tx_count, pma_tx, flags, pending_address, tx_rem, tx_rem_count,
                       usb_current_state, uart_current_state,
                       usb_inital_prompt_pending, cp21_control, halted, ipc, mpc, mlen>>

CtlNext ==
    \/ HostCtlSetup
    \/ HostCtlOut0
    \/ HostIn
    \/ Irq
    \/ Ctr0Tx

SpecCtl == Init /\ [][CtlNext]_vars

\* C26: when ctr0 hands a payload to usb_control, at most 4 bytes are
\* copied into cp21_baud and at most 6 bytes into cp21_chars.
C26_ControlCopyFits ==
    last.what = "control" =>
        \E c \in {ControlCopy(cp21_control, last.len)} :
            /\ c.to = "cp21_baud" => c.n <= Cp21BaudSize
            /\ c.to = "cp21_chars" => c.n <= Cp21CharsSize

(***************************************************************************)
(* SpecSendLive: SpecSend with a host that reads what endpoint 1 has       *)
(* armed, a handler that takes every interrupt requested, and a main       *)
(* context that runs between the interrupts.                               *)
(***************************************************************************)
SpecSendLive ==
    /\ SendInit
    /\ [][SendNext]_vars
    /\ WF_vars(HostIn)
    /\ WF_vars(Irq)
    /\ SF_vars(EndpointSendWait)
    /\ SF_vars(EndpointSendGo)

\* C27: with every IN transfer armed on endpoint 1 completed by the host
\* and every interrupt taken, the transmit-busy flag of endpoint 1 is
\* cleared again whenever it is set, and every endpoint_send that was
\* called returns to the poll loop.
C27_SendReturns ==
    /\ HasFlag(D, EP1R, F_TX_BUSY) ~> ~HasFlag(D, EP1R, F_TX_BUSY)
    /\ (mpc \in {"send_wait", "send_go"}) ~> (mpc = "poll")

\* the handler took the transmit-complete of endpoint 1 and cleared the flag
\* while the next endpoint_send was in its busy-wait
C27_Witness ==
    /\ last.what = "data_tx"
    /\ last.ep = EP1R
    /\ mpc = "send_wait"
    /\ ~HasFlag(D, EP1R, F_TX_BUSY)

\* C28: when ctr0 has handled GET_DESCRIPTOR for the device descriptor, the
\* configuration descriptor or a string 0..3, the number of bytes armed on
\* endpoint 0 is at most the length requested in the SETUP packet.
C28_DescriptorWithinRequest ==
    (/\ last.what = "setup"
     /\ last.tag = 32774
     /\ last.value \div 256 \in {D_DESC, D_CONFIG, D_STRING}
     /\ ~halted)
      => tx_count[EP0R] <= SetupOf(pma_rx[EP0R]).length

(***************************************************************************)
(* SpecLine: the line buffer of the shell under characters, backspaces     *)
(* and carriage returns.  The port is closed, every print is refused.      *)
(***************************************************************************)
\* carriage return is pressed on lines of up to MaxReturnLen characters
MaxReturnLen == 2

\* the character typed: 'a'
LineChars == {97}

\* builtins_terminal_add_to_buffer(c), and the index it wrote at
LineAdd ==
    \E c \in LineChars :
        /\ MainRuns
        /\ mpc = "poll"
        /\ IF terminal_buffer_index < TERMINAL_MAX_CHAR_LENGTH
           THEN /\ terminal_buffer' = [terminal_buffer EXCEPT ![terminal_buffer_index] = c]
                /\ terminal_buffer_index' = terminal_buffer_index + 1
                /\ Note("add_to_buffer", 0, c, 0, terminal_buffer_index)
           ELSE /\ UNCHANGED <<terminal_buffer, terminal_buffer_index>>
                /\ Note("add_full", 0, c, 0, 0)
        /\ UNCHANGED <<xvars, qvars, hvars, cvars, pvars, evars, dispatched, DADDR, ISTR_RESET,
                       tx_count, rx_count, pma_tx, pma_rx, flags, pending_address,
                       tx_rem, tx_rem_count, usb_current_state, uart_current_state,
                       usb_inital_prompt_pending, cp21_control, halted, ipc, mpc, mlen>>

\* builtins_terminal_process_backspace: terminal_buffer[terminal_buffer_index--]
\* = 0, and the index it wrote at.  With the index at 64 the byte written
\* lies behind the array: the array is as it was, and the index is 63, or 0
\* where the byte written was the low byte of terminal_buffer_index
LineBackspace ==
    /\ MainRuns
    /\ mpc = "poll"
    /\ IF terminal_buffer_index > 0
       THEN /\ Note("process_backspace", 0, 0, 0, terminal_buffer_index)
            /\ IF terminal_buffer_index < TERMINAL_MAX_CHAR_LENGTH
               THEN /\ terminal_buffer' = [terminal_buffer EXCEPT ![terminal_buffer_index] = 0]
                    /\ terminal_buffer_index' = terminal_buffer_index - 1
               ELSE /\ terminal_buffer' = terminal_buffer
                    /\ terminal_buffer_index' \in {terminal_buffer_index - 1, 0}
       ELSE /\ UNCHANGED <<terminal_buffer, terminal_buffer_index>>
            /\ Note("backspace_none", 0, 0, 0, 0)
    /\ UNCHANGED <<xvars, qvars, hvars, cvars, pvars, evars, dispatched, DADDR, ISTR_RESET,
                   tx_count, rx_count, pma_tx, pma_rx, flags, pending_address,
                   tx_rem, tx_rem_count, usb_current_state, uart_current_state,
                   usb_inital_prompt_pending, cp21_control, halted, ipc, mpc, mlen>>

\* carriage return on a short line
LineReturn == terminal_buffer_index <= MaxReturnLen /\ ShellReturn

LineNext ==
    \/ LineAdd
    \/ LineBackspace
    \/ LineReturn

SpecLine == ShellInit /\ [][LineNext]_vars

\* C29: the index of the line buffer stays in 0..64, and every write of
\* add-to-buffer and of backspace into the buffer is at an index in 0..63.
C29_LineBufferInBounds ==
    /\ terminal_buffer_index \in 0..TERMINAL_MAX_CHAR_LENGTH
    /\ last.what \in {"add_to_buffer", "process_backspace"}
         => last.len \in 0..(TERMINAL_MAX_CHAR_LENGTH - 1)

====
